---- MODULE Spec2Model ----
(***************************************************************************)
(* Model of the Hathor full-node core: HathorManager (hathor/p2p/manager.py)*)
(* with its vertex intake (validate_new_tx / on_new_tx), the difficulty    *)
(* retarget (calculate_block_difficulty) and the node start-up replay.     *)
(*                                                                         *)
(* Weights are Python floats in the source.  Here a weight is a fixed-point*)
(* integer counting units of 1/WeightUnit, and log(x, 2) is computed digit *)
(* by digit (Log2Fix), truncated to that resolution.                       *)
(***************************************************************************)
EXTENDS Integers, Sequences, FiniteSets, TLC

VARIABLES
    state,          \* HathorManager.state (NodeState, "NONE" before doStart)
    storage,        \* tx_storage: hashes of the vertices held by the storage
    cache,          \* tx_storage cache: hashes passed through _add_to_cache
    latest_blocks,  \* HathorManager.latest_blocks (deque of blocks, as hashes)
    block_weight,   \* HathorManager.block_weight (fixed point)
    pending,        \* vertices _initialize_components still has to replay
    last,           \* record of the last manager call and what it decided
    node,           \* per node: its network and its own peer id (my_peer)
    manager,        \* per node: handshaking_peers, connected_peers, ...
    proto,          \* per node: the protocol of its connection, its transport
    steps,          \* exchange steps made between the two transports
    sent_data,      \* connections the last propagate_tx called send_data on
    mining_block,   \* the block the last generate_mining_block returned
    meta,           \* a TransactionMetadata object
    cloned,         \* what meta.clone() gave
    wallet,         \* the HDWallet object
    wallet_call,    \* the last wallet call and what it returned or raised
    response,       \* what the mining resource answered to the last request
    dag,            \* per replica of the DAG engine: the vertices integrated
                    \* and their metadata; and the weights of the vertices
    sync,           \* the sync manager: GET-DATA requests in flight per peer
    links,          \* per connection to node 1: how far it is, its peer id
    retarget        \* a window span, a weight, and what the retarget made

dagvars == <<state, storage, cache, latest_blocks, block_weight, pending, last,
             sent_data, mining_block>>
p2pvars == <<node, manager, proto, steps>>
metavars == <<meta, cloned>>
walletvars == <<wallet, wallet_call>>
webvars == <<response>>
engvars == <<dag>>
syncvars == <<sync>>
linkvars == <<links>>
retvars == <<retarget>>
appvars == <<metavars, walletvars, webvars, engvars, syncvars, linkvars,
             retvars>>
vars == <<state, storage, cache, latest_blocks, block_weight, pending, last,
          node, manager, proto, steps, sent_data, mining_block,
          meta, cloned, wallet, wallet_call, response, dag, sync,
          links, retarget>>

----------------------------------------------------------------------------
(* Bounds of the model *)

\* length of the main chain of candidate blocks offered to the node
MaxChain == 6
\* number of exchange steps between two connected endpoints
MaxSteps == 4
\* number of lines a test writes into the protocols by hand
MaxInjected == 1

----------------------------------------------------------------------------
(* Fixed-point arithmetic standing for the floats of the source *)

\* one unit of weight is 1/WeightUnit
FracBits == 10
WeightUnit == 2 ^ FracBits
\* working precision of the mantissa while extracting the digits of log2
MantBits == 14

RECURSIVE IntLog2(_)
\* floor(log2(n)) for n >= 1
IntLog2(n) == IF n < 2 THEN 0 ELSE 1 + IntLog2(n \div 2)

RECURSIVE Log2Frac(_, _)
\* the next `bits` binary digits of log2 of the mantissa x in [1, 2)
Log2Frac(x, bits) ==
    IF bits = 0 THEN 0
    ELSE LET y == (x * x) \div (2 ^ MantBits)
         IN  IF y >= 2 ^ (MantBits + 1)
             THEN 2 ^ (bits - 1) + Log2Frac(y \div 2, bits - 1)
             ELSE Log2Frac(y, bits - 1)

\* math.log(n, 2) in units of 1/WeightUnit, truncated
Log2Fix(n) ==
    LET e == IntLog2(n)
        x == (n * (2 ^ MantBits)) \div (2 ^ e)
    IN  e * WeightUnit + Log2Frac(x, FracBits)

----------------------------------------------------------------------------
(* Parameters set by HathorManager.__init__ *)

blocks_per_difficulty == 5
avg_time_between_blocks == 64
min_block_weight == 10 * WeightUnit
initial_block_weight == 10 * WeightUnit
max_allowed_block_weight_change == 2 * WeightUnit
tokens_issued_per_block == 10000

NodeState == {"INITIALIZING", "WAITING_FOR_PEERS", "SYNCING", "SYNCED"}

----------------------------------------------------------------------------
(* The vertices: genesis, and the candidate vertices offered to the node.  *)
(* A hash is a pair <<name, index>>; the content of a vertex is a function *)
(* of its hash, as the hash is the digest of the content.                  *)

GENESIS_TIMESTAMP == 1539271481
\* the genesis issue (2B tokens); only ever compared with the issue per block
GENESIS_TOKENS == 2000000000

BLOCK_GENESIS == <<"genesis_block", 0>>
TX_GENESIS1 == <<"genesis_tx", 1>>
TX_GENESIS2 == <<"genesis_tx", 2>>

genesis_transactions == {BLOCK_GENESIS, TX_GENESIS1, TX_GENESIS2}

\* main chain of blocks, 32 s apart, each on top of the previous one
ChainBlock(k) == <<"chain", k>>
ChainHashes == {ChainBlock(k) : k \in 1..MaxChain}

\* blocks on top of genesis only
BlockW10 == <<"block_w10", 0>>       \* weight 10, 40 s after genesis
BlockBadSum == <<"block_badsum", 0>> \* outputs do not sum to the issue
BlockLate == <<"block_late", 0>>     \* 5000 s after genesis
BlockLow == <<"block_low", 0>>       \* weight 9
BlockNoVerify == <<"block_noverify", 0>> \* verify() raises
SideBlocks == {BlockW10, BlockBadSum, BlockLate, BlockLow, BlockNoVerify}

Tx3 == <<"tx", 3>>                   \* on top of the genesis transactions
TxNoVerify == <<"tx_noverify", 0>>   \* verify() raises
TxOrphan == <<"tx_orphan", 0>>       \* one parent that no node ever has
UnknownHash == <<"unknown", 0>>
TxHashes == {Tx3, TxNoVerify, TxOrphan}

\* further transactions a wallet may push, and the block a miner works on
Tx4 == <<"tx", 4>>                   \* confirms Tx3 and TX_GENESIS1
Tx5 == <<"tx", 5>>                   \* confirms the two genesis transactions
MinedBlock == <<"mined", 0>>

\* every vertex that may be handed to the node
Hashes == genesis_transactions \cup ChainHashes \cup SideBlocks \cup TxHashes

GenesisTxs == {TX_GENESIS1, TX_GENESIS2}

Vertex(h) ==
    LET base == [hash |-> h, is_block |-> FALSE, is_genesis |-> FALSE,
                 parents |-> GenesisTxs, weight |-> 14 * WeightUnit,
                 timestamp |-> GENESIS_TIMESTAMP + 10,
                 sum_outputs |-> tokens_issued_per_block, verify_ok |-> TRUE,
                 height |-> 2]
        block == [base EXCEPT !.is_block = TRUE,
                              !.parents = genesis_transactions]
    IN  CASE h = BLOCK_GENESIS ->
               [block EXCEPT !.is_genesis = TRUE, !.parents = {},
                             !.height = 1,
                             !.weight = min_block_weight,
                             !.timestamp = GENESIS_TIMESTAMP,
                             !.sum_outputs = GENESIS_TOKENS]
          [] h = TX_GENESIS1 ->
               [base EXCEPT !.is_genesis = TRUE, !.parents = {},
                            !.height = 1,
                            !.timestamp = GENESIS_TIMESTAMP + 1,
                            !.sum_outputs = 0]
          [] h = TX_GENESIS2 ->
               [base EXCEPT !.is_genesis = TRUE, !.parents = {},
                            !.height = 1,
                            !.timestamp = GENESIS_TIMESTAMP + 2,
                            !.sum_outputs = 0]
          [] h \in ChainHashes ->
               [block EXCEPT !.parents =
                                 GenesisTxs \cup
                                 {IF h[2] = 1 THEN BLOCK_GENESIS
                                              ELSE ChainBlock(h[2] - 1)},
                             !.height = h[2] + 1,
                             !.timestamp = GENESIS_TIMESTAMP + 32 * h[2]]
          [] h = BlockW10 ->
               [block EXCEPT !.weight = 10 * WeightUnit,
                             !.timestamp = GENESIS_TIMESTAMP + 40]
          [] h = BlockBadSum ->
               [block EXCEPT !.sum_outputs = tokens_issued_per_block - 1,
                             !.timestamp = GENESIS_TIMESTAMP + 50]
          [] h = BlockLate ->
               [block EXCEPT !.timestamp = GENESIS_TIMESTAMP + 5000]
          [] h = BlockLow ->
               [block EXCEPT !.weight = 9 * WeightUnit,
                             !.timestamp = GENESIS_TIMESTAMP + 60]
          [] h = BlockNoVerify ->
               [block EXCEPT !.verify_ok = FALSE]
          [] h = Tx3 -> base
          [] h = TxNoVerify -> [base EXCEPT !.verify_ok = FALSE]
          [] h = TxOrphan ->
               [base EXCEPT !.parents = {TX_GENESIS1, UnknownHash}]
          [] h = Tx4 ->
               [base EXCEPT !.parents = {Tx3, TX_GENESIS1}, !.height = 3,
                            !.timestamp = GENESIS_TIMESTAMP + 20]
          [] h = Tx5 -> [base EXCEPT !.timestamp = GENESIS_TIMESTAMP + 30]
          [] h = MinedBlock -> mining_block

\* contents a storage may hold when the manager is constructed
InitialStorages ==
    { genesis_transactions,
      genesis_transactions \cup {ChainBlock(k) : k \in 1..4} \cup {Tx3} }

----------------------------------------------------------------------------
(* TransactionStorage, as far as the manager uses it *)

transaction_exists_by_hash_bytes(h) == h \in storage

\* number of blocks the storage has indexed
get_block_count(c) == Cardinality({h \in c : Vertex(h).is_block})

----------------------------------------------------------------------------
(* HathorManager *)

\* validate_new_tx without the check for an already stored hash
validate_new_tx_NoKnownCheck(tx) ==
    /\ state # "INITIALIZING" => ~tx.is_genesis
    /\ \A parent_hash \in tx.parents :
          transaction_exists_by_hash_bytes(parent_hash)
    /\ tx.verify_ok
    /\ tx.is_block => tx.weight >= block_weight

\* validate_new_tx without the loop over the parents
validate_new_tx_NoParentCheck(tx) ==
    /\ state # "INITIALIZING" =>
          /\ ~tx.is_genesis
          /\ ~transaction_exists_by_hash_bytes(tx.hash)
    /\ tx.verify_ok
    /\ tx.is_block => tx.weight >= block_weight

\* validate_new_tx comparing the weight with min_block_weight
validate_new_tx_StaticWeight(tx) ==
    /\ state # "INITIALIZING" =>
          /\ ~tx.is_genesis
          /\ ~transaction_exists_by_hash_bytes(tx.hash)
    /\ \A parent_hash \in tx.parents :
          transaction_exists_by_hash_bytes(parent_hash)
    /\ tx.verify_ok
    /\ tx.is_block => tx.weight >= min_block_weight

validate_new_tx(tx) ==
    /\ state # "INITIALIZING" =>
          /\ ~tx.is_genesis
          /\ ~transaction_exists_by_hash_bytes(tx.hash)
    /\ \A parent_hash \in tx.parents :
          transaction_exists_by_hash_bytes(parent_hash)
    /\ tx.verify_ok
    /\ tx.is_block => tx.weight >= block_weight
    \* tx.sum_outputs # tokens_issued_per_block only prints a message

\* calculate_block_difficulty without the floor at min_block_weight
calculate_block_difficulty_NoFloor(blocks, weight) ==
    LET dt0 == Vertex(blocks[Len(blocks)]).timestamp
               - Vertex(blocks[1]).timestamp
        dt == IF dt0 <= 0 THEN 1 ELSE dt0
        delta0 == Log2Fix(avg_time_between_blocks)
                  + Log2Fix(blocks_per_difficulty)
                  - Log2Fix(dt)
        delta == IF delta0 > max_allowed_block_weight_change
                 THEN max_allowed_block_weight_change
                 ELSE IF delta0 < -max_allowed_block_weight_change
                      THEN -max_allowed_block_weight_change
                      ELSE delta0
    IN  [dt |-> dt, delta |-> delta, new_weight |-> weight + delta]

\* calculate_block_difficulty without the upper limit on delta
calculate_block_difficulty_NoUpperLimit(blocks, weight) ==
    LET dt0 == Vertex(blocks[Len(blocks)]).timestamp
               - Vertex(blocks[1]).timestamp
        dt == IF dt0 <= 0 THEN 1 ELSE dt0
        delta0 == Log2Fix(avg_time_between_blocks)
                  + Log2Fix(blocks_per_difficulty)
                  - Log2Fix(dt)
        delta == IF delta0 < -max_allowed_block_weight_change
                 THEN -max_allowed_block_weight_change
                 ELSE delta0
        new_weight0 == weight + delta
        new_weight == IF new_weight0 < min_block_weight
                      THEN min_block_weight ELSE new_weight0
    IN  [dt |-> dt, delta |-> delta, new_weight |-> new_weight]

\* the retarget letting delta rise above max_allowed_block_weight_change
block_difficulty_NoUpperLimit(dt0, weight) ==
    LET dt == IF dt0 <= 0 THEN 1 ELSE dt0
        delta0 == Log2Fix(avg_time_between_blocks)
                  + Log2Fix(blocks_per_difficulty)
                  - Log2Fix(dt)
        delta == IF delta0 < -max_allowed_block_weight_change
                 THEN -max_allowed_block_weight_change
                 ELSE delta0
        new_weight0 == weight + delta
        new_weight == IF new_weight0 < min_block_weight
                      THEN min_block_weight ELSE new_weight0
    IN  [dt |-> dt, delta |-> delta, new_weight |-> new_weight]

\* dt, delta and the new weight from the span dt0 of the window
\* (blocks[-1].timestamp - blocks[0].timestamp) and the current weight
block_difficulty(dt0, weight) ==
    LET dt == IF dt0 <= 0 THEN 1 ELSE dt0
        delta0 == Log2Fix(avg_time_between_blocks)
                  + Log2Fix(blocks_per_difficulty)
                  - Log2Fix(dt)
        delta == IF delta0 > max_allowed_block_weight_change
                 THEN max_allowed_block_weight_change
                 ELSE IF delta0 < -max_allowed_block_weight_change
                      THEN -max_allowed_block_weight_change
                      ELSE delta0
        new_weight0 == weight + delta
        new_weight == IF new_weight0 < min_block_weight
                      THEN min_block_weight ELSE new_weight0
    IN  [dt |-> dt, delta |-> delta, new_weight |-> new_weight]

\* dt and the new weight from a window of blocks and the current weight
calculate_block_difficulty(blocks, weight) ==
    block_difficulty(Vertex(blocks[Len(blocks)]).timestamp
                         - Vertex(blocks[1]).timestamp,
                     weight)

\* the deque after append and the popleft loop
\* the window kept one block short
AppendLatest_OneShort(blocks, h) ==
    LET q == Append(blocks, h)
    IN  IF Len(q) >= blocks_per_difficulty
        THEN SubSeq(q, Len(q) - blocks_per_difficulty + 2, Len(q))
        ELSE q

\* the new block put at the front of the window
AppendLatest_Front(blocks, h) ==
    LET q == <<h>> \o blocks
    IN  IF Len(q) > blocks_per_difficulty
        THEN SubSeq(q, 1, blocks_per_difficulty)
        ELSE q

AppendLatest(blocks, h) ==
    LET q == Append(blocks, h)
    IN  IF Len(q) > blocks_per_difficulty
        THEN SubSeq(q, Len(q) - blocks_per_difficulty + 1, Len(q))
        ELSE q

\* the `return` of validate_new_tx that a call leaves through
validate_exit(tx) ==
    CASE state # "INITIALIZING" /\ tx.is_genesis -> "genesis"
      [] state # "INITIALIZING" /\ ~tx.is_genesis
         /\ transaction_exists_by_hash_bytes(tx.hash) -> "known"
      [] OTHER ->
         IF \E parent_hash \in tx.parents :
               ~transaction_exists_by_hash_bytes(parent_hash)
         THEN "unknown_parent"
         ELSE IF ~tx.verify_ok THEN "verify_error"
         ELSE IF tx.is_block /\ tx.weight < block_weight THEN "low_weight"
         ELSE "valid"

\* the retarget test off by one block
retarget_due_OffByOne(count_blocks) ==
    count_blocks % blocks_per_difficulty = 1

\* `count_blocks % self.blocks_per_difficulty == 0`
retarget_due(count_blocks) == count_blocks % blocks_per_difficulty = 0

\* on_new_tx(tx): op names the caller for the call record
\* the calls on_new_tx makes for a vertex that passed validate_new_tx
on_new_tx_calls ==
    {"wallet.on_new_tx"}
        \cup IF state = "INITIALIZING"
             THEN {"tx_storage._add_to_cache"}
             ELSE {"tx_storage.save_transaction",
                   "node_sync_manager.on_new_tx"}

\* on_new_tx telling the wallet before it validates
on_new_tx_WalletFirst(tx, op) ==
    IF ~validate_new_tx(tx)
    THEN /\ UNCHANGED <<storage, cache, latest_blocks, block_weight>>
         /\ last' = [op |-> op, tx |-> UnknownHash,
                     result |-> validate_exit(tx),
                     old_weight |-> block_weight,
                     calls |-> {"wallet.on_new_tx"}]
    ELSE LET blocks1 == AppendLatest(latest_blocks, tx.hash)
             cache1 == cache \cup {tx.hash}
             count_blocks == get_block_count(cache1)
         IN  /\ storage' = IF state = "INITIALIZING" THEN storage
                           ELSE storage \cup {tx.hash}
             /\ cache' = cache1
             /\ latest_blocks' = IF tx.is_block THEN blocks1
                                 ELSE latest_blocks
             /\ block_weight' =
                    IF tx.is_block /\ retarget_due(count_blocks)
                    THEN calculate_block_difficulty(blocks1,
                                                    block_weight).new_weight
                    ELSE block_weight
             /\ last' = [op |-> op, tx |-> tx.hash, result |-> "accepted",
                         old_weight |-> block_weight,
                         calls |-> on_new_tx_calls]

\* on_new_tx saving the vertex and telling the sync manager whatever the
\* node state is
on_new_tx_SaveAlways(tx, op) ==
    IF ~validate_new_tx(tx)
    THEN /\ UNCHANGED <<storage, cache, latest_blocks, block_weight>>
         /\ last' = [op |-> op, tx |-> UnknownHash,
                     result |-> validate_exit(tx),
                     old_weight |-> block_weight, calls |-> {}]
    ELSE LET blocks1 == AppendLatest(latest_blocks, tx.hash)
             cache1 == cache \cup {tx.hash}
             count_blocks == get_block_count(cache1)
         IN  /\ storage' = storage \cup {tx.hash}
             /\ cache' = cache1
             /\ latest_blocks' = IF tx.is_block THEN blocks1
                                 ELSE latest_blocks
             /\ block_weight' =
                    IF tx.is_block /\ retarget_due(count_blocks)
                    THEN calculate_block_difficulty(blocks1,
                                                    block_weight).new_weight
                    ELSE block_weight
             /\ last' = [op |-> op, tx |-> tx.hash, result |-> "accepted",
                         old_weight |-> block_weight,
                         calls |-> {"wallet.on_new_tx",
                                    "tx_storage.save_transaction",
                                    "node_sync_manager.on_new_tx"}]

on_new_tx(tx, op) ==
    IF ~validate_new_tx(tx)
    THEN /\ UNCHANGED <<storage, cache, latest_blocks, block_weight>>
         /\ last' = [op |-> op, tx |-> UnknownHash,
                     result |-> validate_exit(tx),
                     old_weight |-> block_weight, calls |-> {}]
    ELSE LET blocks1 == AppendLatest(latest_blocks, tx.hash)
             cache1 == cache \cup {tx.hash}
             count_blocks == get_block_count(cache1)
             assert_ok == Len(blocks1) = blocks_per_difficulty
         IN  /\ storage' = IF state = "INITIALIZING" THEN storage
                           ELSE storage \cup {tx.hash}
             /\ cache' = cache1
             /\ latest_blocks' = IF tx.is_block THEN blocks1
                                 ELSE latest_blocks
             /\ block_weight' =
                    IF tx.is_block /\ retarget_due(count_blocks) /\ assert_ok
                    THEN calculate_block_difficulty(blocks1,
                                                    block_weight).new_weight
                    ELSE block_weight
             /\ last' = [op |-> op, tx |-> tx.hash,
                         result |-> IF tx.is_block
                                       /\ retarget_due(count_blocks)
                                       /\ ~assert_ok
                                    THEN "AssertionError" ELSE "accepted",
                         old_weight |-> block_weight,
                         calls |-> on_new_tx_calls]

NoCall == [op |-> "none", tx |-> UnknownHash, result |-> "none",
           old_weight |-> initial_block_weight, calls |-> {}]

----------------------------------------------------------------------------
(* Peers: two nodes, each with one protocol instance on a string           *)
(* transport, as set up by HathorProtocolTestCase.  The protocol of node n *)
(* is named n.                                                             *)

Nodes == {1, 2}
Networks == {"testnet", "mainnet"}
PeerIds == {"peer_id1", "peer_id2"}
NoPeer == "none"
PeerOf(n) == IF n = 1 THEN "peer_id1" ELSE "peer_id2"
Other(n) == IF n = 1 THEN 2 ELSE 1

\* the manager's peer bookkeeping as doStart leaves it; raised records a
\* KeyError out of a handler, dialed the dials the last call of
\* reconnect_to_all or update_peer started.  An endpoint in connecting_peers
\* goes by its description
NewManager ==
    [connecting_peers |-> {}, handshaking_peers |-> {},
     connected_peers |-> <<>>, peer_storage |-> {}, raised |-> FALSE,
     dialed |-> {}]

on_peer_connect(m, protocol) ==
    [m EXCEPT !.handshaking_peers = @ \cup {protocol}]

\* on_peer_ready keeping the protocol in handshaking_peers and leaving
\* connected_peers alone
on_peer_ready_NotRecorded(m, protocol, peer) ==
    [m EXCEPT !.peer_storage = @ \cup {peer}]

on_peer_ready(m, protocol, peer) ==
    IF protocol \notin m.handshaking_peers
    THEN [m EXCEPT !.raised = TRUE]
    ELSE [m EXCEPT !.handshaking_peers = @ \ {protocol},
                   !.peer_storage = @ \cup {peer},
                   !.connected_peers = (peer :> protocol) @@ @]

on_peer_disconnect(m, protocol, peer) ==
    IF peer # NoPeer /\ peer \notin DOMAIN m.connected_peers
    THEN [m EXCEPT !.raised = TRUE]
    ELSE [m EXCEPT !.connected_peers =
                       [k \in (DOMAIN @) \ {peer} |-> @[k]],
                   !.handshaking_peers = @ \ {protocol}]

----------------------------------------------------------------------------
(* The peer connection: protocol state machine HELLO_SENT -> PEER_ID_SENT  *)
(* -> READY -> CLOSED over an ordered stream of messages.                  *)

ProtocolStates ==
    <<"NOT_CONNECTED", "HELLO_SENT", "PEER_ID_SENT", "READY", "CLOSED">>

\* position of a protocol state in the order of the phases
Phase(st) == CHOOSE i \in 1..Len(ProtocolStates) : ProtocolStates[i] = st

\* a line CMD[SP]payload: payload is "json" for a payload that parses and
\* has its fields (network, id), else how it is malformed
Message(cmd, network, id) ==
    [cmd |-> cmd, network |-> network, id |-> id, payload |-> "json"]
\* a line whose payload is missing ("none"), is not JSON ("invalid") or is
\* the empty object ("empty")
Malformed(cmd, kind) ==
    [cmd |-> cmd, network |-> "", id |-> NoPeer, payload |-> kind]
\* the commands that carry a payload the handler has to parse
well_formed(msg) ==
    msg.cmd \in {"HELLO", "PEER-ID", "PEERS"} => msg.payload = "json"
HelloMessage(n) == Message("HELLO", node[n].network, NoPeer)
PeerIdMessage(n) == Message("PEER-ID", "", node[n].my_peer)
Command(cmd) == Message(cmd, "", NoPeer)

\* a protocol before makeConnection: tr is the unread output of its
\* transport, sent and received the commands written and handled so far
NewProtocol ==
    [state |-> "NOT_CONNECTED", peer |-> NoPeer, disconnecting |-> FALSE,
     connected |-> FALSE, tr |-> <<>>, sent |-> <<>>, received |-> <<>>,
     injected |-> <<>>]

\* an endpoint is the pair of a node's protocol p and its manager m
send(ep, msg) ==
    [ep EXCEPT !.p.tr = Append(@, msg), !.p.sent = Append(@, msg.cmd)]

close_connection(ep) ==
    [ep EXCEPT !.p.disconnecting = TRUE, !.p.state = "CLOSED"]

send_error_and_close_connection(ep) ==
    close_connection(send(ep, Command("ERROR")))

\* HELLO handled without comparing the networks
handle_hello_AnyNetwork(ep, n, msg) ==
    send([ep EXCEPT !.p.state = "PEER_ID_SENT"], PeerIdMessage(n))

\* HELLO taking the connection straight to READY
handle_hello_SkipPeerId(ep, n, msg) ==
    IF msg.network # node[n].network
    THEN send_error_and_close_connection(ep)
    ELSE send([ep EXCEPT !.p.state = "READY"], Command("GET-PEERS"))

\* HELLO in state HELLO_SENT
handle_hello(ep, n, msg) ==
    IF msg.network # node[n].network
    THEN send_error_and_close_connection(ep)
    ELSE send([ep EXCEPT !.p.state = "PEER_ID_SENT"], PeerIdMessage(n))

\* PEER-ID handled without comparing the id with the node's own
handle_peer_id_NoCloneCheck(ep, n, msg) ==
    LET ready == [ep EXCEPT !.p.peer = msg.id, !.p.state = "READY",
                            !.m = on_peer_ready(@, n, msg.id)]
    IN  send(ready, Command("GET-PEERS"))

\* PEER-ID in state PEER_ID_SENT
handle_peer_id(ep, n, msg) ==
    IF msg.id = node[n].my_peer
    THEN send_error_and_close_connection(ep)
    ELSE LET ready == [ep EXCEPT !.p.peer = msg.id, !.p.state = "READY",
                                 !.m = on_peer_ready(@, n, msg.id)]
         IN  send(ready, Command("GET-PEERS"))

\* a message in state READY
handle_ready(ep, n, msg) ==
    CASE msg.cmd = "GET-PEERS" -> send(ep, Command("PEERS"))
      [] msg.cmd = "PEERS" -> ep
      [] msg.cmd = "ERROR" -> close_connection(ep)
      [] OTHER -> send_error_and_close_connection(ep)

\* a protocol that drops the lines it cannot handle
handle_IgnoreBad(ep, n, msg) ==
    IF ep.p.disconnecting \/ ep.p.state \in {"NOT_CONNECTED", "CLOSED"}
    THEN ep
    ELSE LET e == [ep EXCEPT !.p.received = Append(@, msg.cmd)]
         IN  CASE msg.cmd = "ERROR" -> close_connection(e)
               [] ~well_formed(msg) -> e
               [] e.p.state = "HELLO_SENT" /\ msg.cmd = "HELLO" ->
                      handle_hello(e, n, msg)
               [] e.p.state = "PEER_ID_SENT" /\ msg.cmd = "PEER-ID" ->
                      handle_peer_id(e, n, msg)
               [] e.p.state = "READY" /\ msg.cmd # "ERROR" ->
                      handle_ready(e, n, msg)
               [] OTHER -> e

\* one line received by the protocol of node n
handle(ep, n, msg) ==
    IF ep.p.disconnecting \/ ep.p.state \in {"NOT_CONNECTED", "CLOSED"}
    THEN ep
    ELSE LET e == [ep EXCEPT !.p.received = Append(@, msg.cmd)]
         IN  CASE msg.cmd = "ERROR" -> close_connection(e)
               [] ~well_formed(msg) -> send_error_and_close_connection(e)
               [] e.p.state = "HELLO_SENT" /\ msg.cmd = "HELLO" ->
                      handle_hello(e, n, msg)
               [] e.p.state = "PEER_ID_SENT" /\ msg.cmd = "PEER-ID" ->
                      handle_peer_id(e, n, msg)
               [] e.p.state = "READY" /\ msg.cmd # "ERROR" ->
                      handle_ready(e, n, msg)
               [] OTHER -> send_error_and_close_connection(e)

RECURSIVE dataReceived(_, _, _)
\* the lines of one read, handled in order
dataReceived(ep, n, lines) ==
    IF lines = <<>> THEN ep
    ELSE dataReceived(handle(ep, n, Head(lines)), n, Tail(lines))

\* no block has been generated for mining yet
NoBlock == [hash |-> UnknownHash]

\* Python's None; bytes and str values are tagged pairs
None == <<>>

\* what a call that raised leaves instead of a result
Raised(error) == [raised |-> error]

\* no metadata object is looked at
NoMetadata == [hash |-> None]
NotCloned == [cloned |-> FALSE]

\* no wallet is looked at
NoWallet == [words |-> None]
NoWalletCall == [op |-> "none", result |-> None]

\* no request was made to the mining resource
NoResponse == [method |-> "none"]

\* no vertex is integrated by the engine, no request is in flight
NoDag == [weight |-> <<>>]
NoSync == [in_flight |-> <<>>]

\* no connection is followed, no retarget is looked at
NoLinks == <<>>
NoRetarget == [span |-> 0]

\* the parts of the node that a specification leaves aside
InitApp ==
    /\ meta = NoMetadata
    /\ cloned = NotCloned
    /\ wallet = NoWallet
    /\ wallet_call = NoWalletCall
    /\ response = NoResponse
    /\ dag = NoDag
    /\ sync = NoSync
    /\ links = NoLinks
    /\ retarget = NoRetarget

\* the manager as constructed, on a storage as found
InitManager ==
    /\ state = "NONE"
    /\ cache = {}
    /\ latest_blocks = <<>>
    /\ block_weight = initial_block_weight
    /\ pending = {}
    /\ last = NoCall
    /\ sent_data = {}
    /\ mining_block = NoBlock

\* two nodes that have not connected yet
InitP2P ==
    /\ manager = [n \in Nodes |-> NewManager]
    /\ proto = [n \in Nodes |-> NewProtocol]
    /\ steps = 0

Init ==
    /\ InitManager
    /\ storage \in InitialStorages
    /\ node = [n \in Nodes |-> [network |-> "testnet", my_peer |-> PeerOf(n)]]
    /\ InitP2P
    /\ InitApp

\* doStart up to the replay loop of _initialize_components
doStart ==
    /\ state = "NONE"
    /\ state' = "INITIALIZING"
    /\ pending' = storage
    /\ last' = [NoCall EXCEPT !.op = "doStart"]
    /\ UNCHANGED <<storage, cache, latest_blocks, block_weight>>
    /\ UNCHANGED <<sent_data, mining_block>>
    /\ UNCHANGED p2pvars
    /\ UNCHANGED appvars

\* one iteration of `for tx in self.tx_storage._topological_sort()`
InitializeReplay ==
    /\ state = "INITIALIZING"
    /\ \E h \in pending :
          /\ Vertex(h).parents \cap pending = {}
          /\ on_new_tx(Vertex(h), "replay")
          /\ pending' = pending \ {h}
    /\ UNCHANGED state
    /\ UNCHANGED <<sent_data, mining_block>>
    /\ UNCHANGED p2pvars
    /\ UNCHANGED appvars

\* _initialize_components leaving the loop before the storage is exhausted
InitializeDone_Early ==
    /\ state = "INITIALIZING"
    /\ state' = "WAITING_FOR_PEERS"
    /\ last' = [NoCall EXCEPT !.op = "initialized"]
    /\ UNCHANGED <<storage, cache, latest_blocks, block_weight, pending>>
    /\ UNCHANGED <<sent_data, mining_block>>
    /\ UNCHANGED p2pvars
    /\ UNCHANGED appvars

\* the end of _initialize_components
InitializeDone ==
    /\ state = "INITIALIZING"
    /\ pending = {}
    /\ state' = "WAITING_FOR_PEERS"
    /\ last' = [NoCall EXCEPT !.op = "initialized"]
    /\ UNCHANGED <<storage, cache, latest_blocks, block_weight, pending>>
    /\ UNCHANGED <<sent_data, mining_block>>
    /\ UNCHANGED p2pvars
    /\ UNCHANGED appvars

\* the sync manager moves the node between the states after start-up
SyncStateChange ==
    /\ state \in NodeState \ {"INITIALIZING"}
    /\ \E s \in NodeState \ {"INITIALIZING", state} :
          state' = s
    /\ last' = [NoCall EXCEPT !.op = "sync_state"]
    /\ UNCHANGED <<storage, cache, latest_blocks, block_weight, pending>>
    /\ UNCHANGED <<sent_data, mining_block>>
    /\ UNCHANGED p2pvars
    /\ UNCHANGED appvars

\* a vertex arrives (from a peer, the wallet or a miner)
OnNewTx ==
    /\ state \in NodeState \ {"INITIALIZING"}
    /\ \E h \in Hashes : on_new_tx(Vertex(h), "on_new_tx")
    /\ UNCHANGED <<state, pending>>
    /\ UNCHANGED <<sent_data, mining_block>>
    /\ UNCHANGED p2pvars
    /\ UNCHANGED appvars

Next ==
    \/ doStart
    \/ InitializeReplay
    \/ InitializeDone
    \/ SyncStateChange
    \/ OnNewTx

Spec == Init /\ [][Next]_vars

----------------------------------------------------------------------------
(* Two connected nodes exchanging their output step by step *)

\* the networks and peer ids the two nodes may be given
InitPeers ==
    /\ InitManager
    /\ storage = genesis_transactions
    /\ node \in [Nodes -> [network : Networks, my_peer : PeerIds]]
    /\ InitP2P
    /\ InitApp

\* generate_peer: the protocol of node n is built and connected to its
\* transport; it registers with the manager and says HELLO
makeConnection(n) ==
    /\ proto[n].state = "NOT_CONNECTED"
    /\ LET ep == send([p |-> [proto[n] EXCEPT !.state = "HELLO_SENT",
                                               !.connected = TRUE],
                       m |-> on_peer_connect(manager[n], n)],
                      HelloMessage(n))
       IN  /\ proto' = [proto EXCEPT ![n] = ep.p]
           /\ manager' = [manager EXCEPT ![n] = ep.m]
    /\ UNCHANGED <<node, steps>>
    /\ UNCHANGED dagvars
    /\ UNCHANGED appvars

\* _run_one_step: each side reads what the other has written so far
run_one_step ==
    /\ \A n \in Nodes : proto[n].state # "NOT_CONNECTED"
    /\ steps < MaxSteps
    /\ LET after(n) ==
               dataReceived([p |-> [proto[n] EXCEPT !.tr = <<>>],
                             m |-> manager[n]],
                            n, proto[Other(n)].tr)
       IN  /\ proto' = [n \in Nodes |-> after(n).p]
           /\ manager' = [n \in Nodes |-> after(n).m]
    /\ steps' = steps + 1
    /\ UNCHANGED node
    /\ UNCHANGED dagvars
    /\ UNCHANGED appvars

\* the transport of node n, asked to disconnect, reports the connection lost
connectionLost(n) ==
    /\ proto[n].connected
    /\ proto[n].disconnecting
    /\ proto' = [proto EXCEPT ![n].connected = FALSE, ![n].state = "CLOSED"]
    /\ manager' = [manager EXCEPT
                      ![n] = on_peer_disconnect(@, n, proto[n].peer)]
    /\ UNCHANGED <<node, steps>>
    /\ UNCHANGED dagvars
    /\ UNCHANGED appvars

NextP2P ==
    \/ \E n \in Nodes : makeConnection(n)
    \/ run_one_step
    \/ \E n \in Nodes : connectionLost(n)

SpecP2P == InitPeers /\ [][NextP2P]_vars

----------------------------------------------------------------------------
(* The same two nodes, with lines written into a protocol by hand *)

\* the lines _send_cmd is used with
InjectedLines ==
    {Command("INVALID-CMD"), Command("GET-PEERS"),
     Malformed("HELLO", "none"), Malformed("HELLO", "invalid"),
     Malformed("HELLO", "empty"), Malformed("PEER-ID", "invalid"),
     Malformed("PEERS", "invalid")}
    \cup {Message("HELLO", net, NoPeer) : net \in Networks}
    \cup {Message("PEER-ID", "", id) : id \in PeerIds}

\* _send_cmd(proto, cmd, payload): proto.dataReceived of one line
send_cmd(n, msg) ==
    /\ proto[n].state # "NOT_CONNECTED"
    /\ Len(proto[1].injected) + Len(proto[2].injected) < MaxInjected
    /\ LET ep == handle([p |-> [proto[n] EXCEPT !.injected = Append(@, msg)],
                         m |-> manager[n]], n, msg)
       IN  /\ proto' = [proto EXCEPT ![n] = ep.p]
           /\ manager' = [manager EXCEPT ![n] = ep.m]
    /\ UNCHANGED <<node, steps>>
    /\ UNCHANGED dagvars
    /\ UNCHANGED appvars

NextInject ==
    \/ \E n \in Nodes : makeConnection(n)
    \/ run_one_step
    \/ \E n \in Nodes : connectionLost(n)
    \/ \E n \in Nodes, msg \in InjectedLines : send_cmd(n, msg)

SpecInject == InitPeers /\ [][NextInject]_vars

----------------------------------------------------------------------------
(* One node pushing vertices to the peers connected to it *)

\* the connections other peers open to node 1, and the peer behind each
Connections == {"conn2", "conn3"}
PeerOfConnection(c) == IF c = "conn2" THEN "peer_id2" ELSE "peer_id3"

\* the vertices the wallet and the miner push
PushedHashes == {ChainBlock(1), BlockLow, Tx3}

\* the connections held in connected_peers
connected_protocols(m) == {m.connected_peers[k] : k \in DOMAIN m.connected_peers}

\* propagate_tx sending whatever the node state is
propagate_tx_AnyState(tx) ==
    /\ state # "NONE"
    /\ on_new_tx(tx, "propagate_tx")
    /\ sent_data' = connected_protocols(manager[1])
    /\ UNCHANGED <<state, pending, mining_block>>
    /\ UNCHANGED p2pvars

propagate_tx(tx) ==
    /\ state # "NONE"
    /\ on_new_tx(tx, "propagate_tx")
    /\ sent_data' = IF state = "SYNCED"
                    THEN connected_protocols(manager[1])
                    ELSE {}
    /\ UNCHANGED <<state, pending, mining_block>>
    /\ UNCHANGED p2pvars

\* the wallet or the miner pushes tx
PropagateTx(tx) ==
    /\ propagate_tx(tx)
    /\ UNCHANGED appvars

\* a peer opens connection c to node 1
PeerConnects(c) ==
    /\ state # "NONE"
    /\ c \notin manager[1].handshaking_peers \cup connected_protocols(manager[1])
    /\ manager' = [manager EXCEPT ![1] = on_peer_connect(@, c)]
    /\ UNCHANGED <<node, proto, steps>>
    /\ UNCHANGED dagvars
    /\ UNCHANGED appvars

\* the handshake on connection c is over
PeerReady(c) ==
    /\ c \in manager[1].handshaking_peers
    /\ manager' = [manager EXCEPT
                      ![1] = on_peer_ready(@, c, PeerOfConnection(c))]
    /\ UNCHANGED <<node, proto, steps>>
    /\ UNCHANGED dagvars
    /\ UNCHANGED appvars

\* connection c is lost
PeerDisconnects(c) ==
    /\ c \in manager[1].handshaking_peers \cup connected_protocols(manager[1])
    /\ manager' = [manager EXCEPT
                      ![1] = on_peer_disconnect(@, c,
                                 IF c \in connected_protocols(@)
                                 THEN PeerOfConnection(c) ELSE NoPeer)]
    /\ UNCHANGED <<node, proto, steps>>
    /\ UNCHANGED dagvars
    /\ UNCHANGED appvars

InitNet ==
    /\ InitManager
    /\ storage = genesis_transactions
    /\ node = [n \in Nodes |-> [network |-> "testnet", my_peer |-> PeerOf(n)]]
    /\ InitP2P
    /\ InitApp

NextNet ==
    \/ doStart
    \/ InitializeReplay
    \/ InitializeDone
    \/ SyncStateChange
    \/ \E h \in PushedHashes : PropagateTx(Vertex(h))
    \/ \E c \in Connections : PeerConnects(c)
    \/ \E c \in Connections : PeerReady(c)
    \/ \E c \in Connections : PeerDisconnects(c)

SpecNet == InitNet /\ [][NextNet]_vars

----------------------------------------------------------------------------
(* Mining: a miner asks the node for a block to work on and hands it back *)

\* tx_storage.get_tip_blocks_hashes(): the blocks with no block child
get_tip_blocks_hashes ==
    {h \in storage :
        /\ Vertex(h).is_block
        /\ ~\E c \in storage : Vertex(c).is_block /\ h \in Vertex(c).parents}

\* the transactions with no transaction child
tip_transactions ==
    {h \in storage :
        /\ ~Vertex(h).is_block
        /\ ~\E c \in storage : ~Vertex(c).is_block /\ h \in Vertex(c).parents}

\* tx_storage.get_tip_transactions(count): the lists it may return, up to
\* count distinct tips
get_tip_transactions(count) ==
    LET n == IF Cardinality(tip_transactions) < count
             THEN Cardinality(tip_transactions) ELSE count
    IN  {tips \in [1..n -> tip_transactions] :
            \A i, j \in 1..n : tips[i] = tips[j] => i = j}

\* get_new_tx_parents returning the tips as they come
get_new_tx_parents_NoFill == get_tip_transactions(2)

\* the lists get_new_tx_parents may return; random.choice picks any parent
\* of a single tip, and raises when there is none to pick
get_new_tx_parents ==
    UNION { IF Len(tips) = 1
            THEN {Append(tips, p) : p \in Vertex(tips[1]).parents}
            ELSE {tips} : tips \in get_tip_transactions(2) }

\* the time at which the miner's block is built
MiningTime == GENESIS_TIMESTAMP + 32 * 5

\* Block(weight, outputs, parents, storage, height), its proof of work done;
\* tip_blocks is a set and tip_txs a list, parents = tip_blocks + tip_txs
Block(weight, tx_outputs, tip_blocks, tip_txs, height) ==
    [hash |-> MinedBlock, is_block |-> TRUE, is_genesis |-> FALSE,
     parents |-> tip_blocks \cup {tip_txs[i] : i \in DOMAIN tip_txs},
     num_parents |-> Cardinality(tip_blocks) + Len(tip_txs),
     weight |-> weight, timestamp |-> MiningTime,
     outputs |-> tx_outputs,
     sum_outputs |-> IF tx_outputs = <<>> THEN 0 ELSE tx_outputs[1].value,
     verify_ok |-> TRUE, height |-> height]

\* max(x.height for x in parents_tx)
max_height(parents) ==
    CHOOSE m \in {Vertex(x).height : x \in parents} :
        \A x \in parents : Vertex(x).height <= m

\* [TxOutput(amount, address)], address the wallet's next unused one
tx_outputs ==
    << [value |-> tokens_issued_per_block, address |-> "unused"] >>

\* generate_mining_block taking the height from the block tips alone
generate_mining_block_BlockHeightOnly ==
    { Block(block_weight,
            tx_outputs,
            get_tip_blocks_hashes, tip_txs,
            max_height(get_tip_blocks_hashes) + 1)
      : tip_txs \in get_new_tx_parents }

\* generate_mining_block with the weight the node was constructed with
generate_mining_block_InitialWeight ==
    { Block(initial_block_weight,
            tx_outputs,
            get_tip_blocks_hashes, tip_txs,
            max_height(get_tip_blocks_hashes
                       \cup {tip_txs[i] : i \in DOMAIN tip_txs}) + 1)
      : tip_txs \in get_new_tx_parents }

\* generate_mining_block leaving the block tips out of the parents
generate_mining_block_TxParentsOnly ==
    { Block(block_weight,
            tx_outputs,
            {}, tip_txs,
            max_height({tip_txs[i] : i \in DOMAIN tip_txs}) + 1)
      : tip_txs \in get_new_tx_parents }

\* the blocks generate_mining_block may return
generate_mining_block ==
    { Block(block_weight,
            tx_outputs,
            get_tip_blocks_hashes, tip_txs,
            max_height(get_tip_blocks_hashes
                       \cup {tip_txs[i] : i \in DOMAIN tip_txs}) + 1)
      : tip_txs \in get_new_tx_parents }

\* the vertices that reach the node while the miner works
MiningHashes == {ChainBlock(1), BlockW10, BlockLate, Tx3, Tx4, Tx5}

OnOfferedTx ==
    /\ state \in NodeState \ {"INITIALIZING"}
    /\ \E h \in MiningHashes : on_new_tx(Vertex(h), "on_new_tx")
    /\ UNCHANGED <<state, pending, sent_data, mining_block>>
    /\ UNCHANGED p2pvars
    /\ UNCHANGED appvars

\* the miner is given the block generate_mining_block returns; made_after
\* notes the vertices the node had accepted by then.  One block is mined:
\* none is generated once the mined block is in the node
GenerateMiningBlock ==
    /\ MinedBlock \notin storage \cup cache
    /\ \E block \in generate_mining_block :
          mining_block' = block @@ [made_after |-> cache]
    /\ UNCHANGED <<state, storage, cache, latest_blocks, block_weight,
                   pending, last, sent_data>>
    /\ UNCHANGED p2pvars
    /\ UNCHANGED appvars

\* the miner hands the block back: on_new_tx(block)
SubmitMinedBlock ==
    /\ state \in NodeState \ {"INITIALIZING"}
    /\ mining_block # NoBlock
    /\ on_new_tx(mining_block, "submit_block")
    /\ UNCHANGED <<state, pending, sent_data, mining_block>>
    /\ UNCHANGED p2pvars
    /\ UNCHANGED appvars

NextMining ==
    \/ doStart
    \/ InitializeReplay
    \/ InitializeDone
    \/ OnOfferedTx
    \/ GenerateMiningBlock
    \/ SubmitMinedBlock

SpecMining == Init /\ [][NextMining]_vars

----------------------------------------------------------------------------
(* MiningResource: the /mining endpoint *)

\* what a call of propagate_tx evaluates to: the method ends without
\* a return statement
propagate_tx_returns == None

\* the truth value Python gives a value in a condition
truthy(v) == v # None

\* the blocks a miner posts
PostedHashes == {ChainBlock(1), BlockW10, BlockLow}

\* POST /mining with the bytes of block h
render_POST(h) ==
    /\ propagate_tx(Vertex(h))
    /\ response' = [method |-> "POST",
                    body |-> IF truthy(propagate_tx_returns)
                             THEN "1" ELSE "0"]
    /\ UNCHANGED <<metavars, walletvars, engvars, syncvars,
                   linkvars, retvars>>

\* the texts given as the address argument
ValidAddressText == "HNXsVtRUmwDCtpcCJUrH4QiHo9kUKx199A"
InvalidAddressText == "HNXsVtRU"

\* the query arguments of a GET request
RequestArgs == {<<>>, [address |-> ValidAddressText],
                [address |-> InvalidAddressText]}

decode_address(address_txt) ==
    IF address_txt = ValidAddressText
    THEN <<"bytes", address_txt>>
    ELSE Raised("InvalidAddress")

\* the parameters generate_mining_block of the manager takes
generate_mining_block_parameters == {}

\* GET /mining.  can_start_mining is what the manager answers to
\* can_start_mining()
render_GET(can_start_mining, args) ==
    /\ state # "NONE"
    /\ response' =
          IF ~can_start_mining
          THEN [method |-> "GET", code |-> 503,
                body |-> [reason |-> "Node still syncing"]]
          ELSE IF "address" \in DOMAIN args
                  /\ decode_address(args.address) = Raised("InvalidAddress")
          THEN [method |-> "GET", code |-> 200,
                body |-> [success |-> FALSE, message |-> "Invalid address"]]
          ELSE IF "address" \notin DOMAIN args
          THEN [method |-> "GET", code |-> 500,
                body |-> Raised("UnboundLocalError")]
          ELSE IF "address" \notin generate_mining_block_parameters
          THEN [method |-> "GET", code |-> 500,
                body |-> Raised("TypeError")]
          ELSE [method |-> "GET", code |-> 200,
                body |-> [block |-> CHOOSE b \in generate_mining_block : TRUE]]
    /\ UNCHANGED <<dagvars, p2pvars, metavars, walletvars, engvars, syncvars,
                   linkvars, retvars>>

NextResource ==
    \/ doStart
    \/ InitializeReplay
    \/ InitializeDone
    \/ SyncStateChange
    \/ \E h \in PostedHashes : render_POST(h)
    \/ \E can_start_mining \in BOOLEAN, args \in RequestArgs :
          render_GET(can_start_mining, args)

SpecResource == Init /\ [][NextResource]_vars

----------------------------------------------------------------------------
(* One node dialling the peers it knows of *)

\* the peers node 1 may hear of, itself included, and what each announces
KnownPeers == {"peer_id1", "peer_id2", "peer_id3", "peer_id4", "peer_id5"}
entrypoints(peer) ==
    CASE peer = "peer_id2" -> {"tcp:host2:40403", "tcp:host2b:40403"}
      [] peer = "peer_id3" -> {"tcp:host3:40403"}
      [] peer = "peer_id4" -> {"tcp:host4:40403"}
      [] OTHER -> {}
NoEntrypoint == "none"

\* what random.choice(peer.entrypoints) may give for each of the peers
RECURSIVE ChoicesFor(_)
ChoicesFor(peers) ==
    IF peers = {}
    THEN {<<>>}
    ELSE LET peer == CHOOSE x \in peers : TRUE
             options == IF entrypoints(peer) = {} THEN {NoEntrypoint}
                                                  ELSE entrypoints(peer)
         IN  {(peer :> e) @@ c :
                 e \in options, c \in ChoicesFor(peers \ {peer})}

Choices == ChoicesFor(KnownPeers)

connect_to(m, description) ==
    [m EXCEPT !.connecting_peers = @ \cup {description}]

\* connect_to_if_not_connected dialling connected peers too
connect_to_if_not_connected_Always(m, peer, choice) ==
    IF entrypoints(peer) = {}
    THEN m
    ELSE [connect_to(m, choice) EXCEPT !.dialed = @ \cup {<<peer, choice>>}]

\* choice is the entrypoint random.choice gives
connect_to_if_not_connected(m, peer, choice) ==
    IF entrypoints(peer) = {}
    THEN m
    ELSE IF peer \notin DOMAIN m.connected_peers
         THEN [connect_to(m, choice) EXCEPT
                  !.dialed = @ \cup {<<peer, choice>>}]
         ELSE m

update_peer(m, my_peer, peer, choice) ==
    IF peer = my_peer
    THEN m
    ELSE connect_to_if_not_connected(
             [m EXCEPT !.peer_storage = @ \cup {peer}], peer, choice)

\* `for peer in self.peer_storage.values()`
reconnect_to_all(m, choices) ==
    LET visit[peers \in SUBSET m.peer_storage] ==
            IF peers = {}
            THEN m
            ELSE LET peer == CHOOSE x \in peers : TRUE
                 IN  connect_to_if_not_connected(visit[peers \ {peer}],
                                                 peer, choices[peer])
    IN  visit[m.peer_storage]

\* a PEERS message tells node 1 of a peer
UpdatePeer(peer) ==
    /\ state \in NodeState \ {"INITIALIZING"}
    /\ \E c \in Choices :
          manager' = [manager EXCEPT
                         ![1] = update_peer([@ EXCEPT !.dialed = {}],
                                            node[1].my_peer, peer, c[peer])]
    /\ UNCHANGED <<node, proto, steps>>
    /\ UNCHANGED dagvars
    /\ UNCHANGED appvars

\* lc_reconnect fires
ReconnectTick ==
    /\ state \in NodeState \ {"INITIALIZING"}
    /\ \E c \in Choices :
          manager' = [manager EXCEPT
                         ![1] = reconnect_to_all([@ EXCEPT !.dialed = {}], c)]
    /\ UNCHANGED <<node, proto, steps>>
    /\ UNCHANGED dagvars
    /\ UNCHANGED appvars

\* _connect_to_callback and on_connection_failure: a dial ends
DialEnds(endpoint) ==
    /\ endpoint \in manager[1].connecting_peers
    /\ manager' = [manager EXCEPT ![1].connecting_peers = @ \ {endpoint}]
    /\ UNCHANGED <<node, proto, steps>>
    /\ UNCHANGED dagvars
    /\ UNCHANGED appvars

NextDial ==
    \/ doStart
    \/ InitializeReplay
    \/ InitializeDone
    \/ \E peer \in KnownPeers : UpdatePeer(peer)
    \/ ReconnectTick
    \/ \E p \in KnownPeers : \E endpoint \in entrypoints(p) : DialEnds(endpoint)
    \/ \E c \in Connections : PeerConnects(c)
    \/ \E c \in Connections : PeerReady(c)
    \/ \E c \in Connections : PeerDisconnects(c)

SpecDial == InitNet /\ [][NextDial]_vars

----------------------------------------------------------------------------
(* TransactionMetadata: its JSON form and clone() *)

\* the byte strings that occur as hashes in a metadata object
MetaHashes == {<<"bytes", "aa">>, <<"bytes", "bb">>}
\* bytes.hex() and bytes.fromhex(), between bytes and str
hex(b) == <<"str", b[2]>>
fromhex(x) == <<"bytes", x[2]>>

\* the compared fields, and those holding a mutable set or map
MetaFields ==
    {"hash", "spent_outputs", "conflict_with", "voided_by", "received_by",
     "children", "accumulated_weight", "twins", "score", "first_block"}
MetaContainers ==
    {"spent_outputs", "conflict_with", "voided_by", "received_by",
     "children", "twins"}

\* TransactionMetadata(): refs names, per field, the set or map object the
\* field points to; maker tells the objects of one constructor call from
\* those of another
TransactionMetadata(maker) ==
    [hash |-> None, spent_outputs |-> <<>>, conflict_with |-> {},
     voided_by |-> {}, received_by |-> {}, children |-> {}, twins |-> {},
     accumulated_weight |-> 0, score |-> 0, first_block |-> None,
     refs |-> [f \in MetaContainers |-> <<maker, f>>]]

\* the metadata objects looked at
Metadatas ==
    {[TransactionMetadata("m") EXCEPT
         !.hash = h, !.spent_outputs = so, !.conflict_with = cw,
         !.voided_by = cw, !.received_by = rb, !.children = ch,
         !.twins = {}, !.accumulated_weight = aw, !.score = aw,
         !.first_block = fb] :
        h \in MetaHashes \cup {None},
        so \in UNION {[idx -> SUBSET MetaHashes] : idx \in SUBSET {0, 1}},
        cw \in {{}, {<<"bytes", "aa">>}},
        rb \in {{}, {1, 2}},
        ch \in {{}, MetaHashes},
        aw \in {0, 14 * WeightUnit},
        fb \in {None, <<"bytes", "bb">>}}

__eq__(self, other) == \A field \in MetaFields : self[field] = other[field]

\* to_json: the lists of the JSON form are kept as sets
to_json(self) ==
    [hash |-> IF self.hash = None THEN None ELSE hex(self.hash),
     spent_outputs |->
         {<<idx, {hex(h_bytes) : h_bytes \in self.spent_outputs[idx]}>> :
             idx \in DOMAIN self.spent_outputs},
     received_by |-> self.received_by,
     children |-> {hex(x) : x \in self.children},
     conflict_with |-> {hex(x) : x \in self.conflict_with},
     voided_by |-> {hex(x) : x \in self.voided_by},
     twins |-> {hex(x) : x \in self.twins},
     accumulated_weight |-> self.accumulated_weight,
     score |-> self.score,
     first_block |-> IF self.first_block # None THEN hex(self.first_block)
                                                ELSE None]


\* create_from_json: bytes.fromhex(None) raises TypeError; an index enters
\* meta.spent_outputs when a hash is added under it
create_from_json(data) ==
    IF data.hash = None
    THEN Raised("TypeError")
    ELSE LET cls == TransactionMetadata("create_from_json")
             filled == {pair[1] : pair \in {x \in data.spent_outputs :
                                               x[2] # {}}}
             hashes_of(idx) ==
                 UNION {pair[2] : pair \in {x \in data.spent_outputs :
                                               x[1] = idx}}
         IN  [cls EXCEPT
                 !.hash = fromhex(data.hash),
                 !.spent_outputs =
                     [idx \in filled |->
                         {fromhex(h_hex) : h_hex \in hashes_of(idx)}],
                 !.received_by = data.received_by,
                 !.children = {fromhex(h) : h \in data.children},
                 !.conflict_with = {fromhex(h) : h \in data.conflict_with},
                 !.voided_by = {fromhex(h) : h \in data.voided_by},
                 !.twins = {fromhex(h) : h \in data.twins},
                 !.accumulated_weight = data.accumulated_weight,
                 !.score = data.score,
                 !.first_block = IF data.first_block # None
                                 THEN fromhex(data.first_block)
                                 ELSE None]

clone(self) == create_from_json(to_json(self))

\* meta.clone() is called
Clone ==
    /\ meta # NoMetadata
    /\ cloned' = clone(meta)
    /\ UNCHANGED meta
    /\ UNCHANGED <<dagvars, p2pvars, walletvars, webvars, engvars, syncvars,
                   linkvars, retvars>>

InitMeta ==
    /\ InitManager
    /\ storage = genesis_transactions
    /\ node = [n \in Nodes |-> [network |-> "testnet", my_peer |-> PeerOf(n)]]
    /\ InitP2P
    /\ meta \in Metadatas
    /\ cloned = NotCloned
    /\ wallet = NoWallet
    /\ wallet_call = NoWalletCall
    /\ response = NoResponse
    /\ dag = NoDag
    /\ sync = NoSync
    /\ links = NoLinks
    /\ retarget = NoRetarget

NextMeta == Clone

SpecMeta == InitMeta /\ [][NextMeta]_vars

----------------------------------------------------------------------------
(* HDWallet *)

\* addresses are kept in play up to this key index
MaxKeyIndex == 6
\* the gap_limit the wallet is constructed with
gap_limit == 3

\* mnemonic sentences: one that Mnemonic.check accepts, one that it rejects
ValidWords == <<"str", "valid words">>
InvalidWords == <<"str", "invalid words">>
mnemonic_check(words) == words = ValidWords

\* get_address(chain_key.subkey(index)): the address of the key at index
get_address(index) == <<"address", index>>
child_index(address58) == address58[2]

\* HDWallet(words): keys holds the addresses of the generated keys,
\* chain_key tells whether _manually_initialize has derived the chain key;
\* used notes the addresses handed out as used or that received tokens
HDWallet(words) ==
    [words |-> words, keys |-> {}, last_shared_index |-> 0,
     last_generated_index |-> 0, chain_key |-> FALSE, used |-> {}]

\* generate_new_key(index) for every index from..to in turn
generate_new_keys(w, from, to) ==
    IF to < from
    THEN w
    ELSE [w EXCEPT !.keys = @ \cup {get_address(i) : i \in from..to},
                   !.last_generated_index = to]

\* _manually_initialize: [w, raised], raised naming the exception if any
_manually_initialize(w) ==
    IF w.words = None
    THEN [w |-> w, raised |-> None]
    ELSE IF ~mnemonic_check(w.words)
    THEN [w |-> w, raised |-> <<"str", "InvalidWords">>]
    ELSE [w |-> generate_new_keys([w EXCEPT !.chain_key = TRUE],
                                  0, gap_limit - 1),
          raised |-> None]

\* tokens_received moving last_shared_index without generating the keys
\* up to the gap limit
tokens_received_NoNewKeys(w, address58) ==
    LET next == child_index(address58) + 1
    IN  [w EXCEPT !.last_shared_index = IF @ > next THEN @ ELSE next,
                  !.used = @ \cup {address58}]

tokens_received(w, address58) ==
    LET diff == w.last_generated_index - child_index(address58)
        w1 == IF gap_limit - diff > 0
              THEN generate_new_keys(w, w.last_generated_index + 1,
                                     w.last_generated_index
                                         + (gap_limit - diff))
              ELSE w
        next == child_index(address58) + 1
    IN  [w1 EXCEPT !.last_shared_index = IF @ > next THEN @ ELSE next,
                   !.used = @ \cup {address58}]

\* get_unused_address: [w, result]
get_unused_address(w, mark_as_used) ==
    LET w1 == IF w.last_shared_index # w.last_generated_index /\ mark_as_used
              THEN [w EXCEPT !.last_shared_index = @ + 1]
              ELSE w
        result == get_address(w1.last_shared_index)
    IN  [w |-> IF mark_as_used THEN [w1 EXCEPT !.used = @ \cup {result}]
                               ELSE w1,
         result |-> result]

is_locked(w) == w.words = None

lock(w) ==
    [w EXCEPT !.words = None, !.keys = {}, !.last_shared_index = 0,
              !.last_generated_index = 0, !.used = {}]

\* unlock(tx_storage, words): without words a fresh valid sentence is
\* generated; [w, raised]
unlock(w, words) ==
    _manually_initialize(
        [w EXCEPT !.words = IF words = None THEN ValidWords ELSE words])

\* the manager starts: wallet._manually_initialize()
ManuallyInitialize ==
    /\ wallet_call = NoWalletCall
    /\ LET r == _manually_initialize(wallet)
       IN  /\ wallet' = r.w
           /\ wallet_call' = [op |-> "_manually_initialize",
                              result |-> r.raised]
    /\ UNCHANGED <<dagvars, p2pvars, metavars, webvars, engvars, syncvars,
                   linkvars, retvars>>

Unlock(words) ==
    /\ wallet_call # NoWalletCall
    /\ LET r == unlock(wallet, words)
       IN  /\ wallet' = r.w
           /\ wallet_call' = [op |-> "unlock", result |-> r.raised]
    /\ UNCHANGED <<dagvars, p2pvars, metavars, webvars, engvars, syncvars,
                   linkvars, retvars>>

Lock ==
    /\ wallet_call # NoWalletCall
    /\ wallet' = lock(wallet)
    /\ wallet_call' = [op |-> "lock", result |-> None]
    /\ UNCHANGED <<dagvars, p2pvars, metavars, webvars, engvars, syncvars,
                   linkvars, retvars>>

\* tokens arrive at an address of the wallet
TokensReceived(address58) ==
    /\ address58 \in wallet.keys
    /\ child_index(address58) + gap_limit <= MaxKeyIndex
    /\ wallet' = tokens_received(wallet, address58)
    /\ wallet_call' = [op |-> "tokens_received", result |-> address58]
    /\ UNCHANGED <<dagvars, p2pvars, metavars, webvars, engvars, syncvars,
                   linkvars, retvars>>

GetUnusedAddress(mark_as_used) ==
    /\ wallet.chain_key
    /\ wallet.last_shared_index < MaxKeyIndex
    /\ LET r == get_unused_address(wallet, mark_as_used)
       IN  /\ wallet' = r.w
           /\ wallet_call' = [op |-> "get_unused_address",
                              result |-> r.result]
    /\ UNCHANGED <<dagvars, p2pvars, metavars, webvars, engvars, syncvars,
                   linkvars, retvars>>

InitWallet ==
    /\ InitManager
    /\ storage = genesis_transactions
    /\ node = [n \in Nodes |-> [network |-> "testnet", my_peer |-> PeerOf(n)]]
    /\ InitP2P
    /\ meta = NoMetadata
    /\ cloned = NotCloned
    /\ wallet \in {HDWallet(None), HDWallet(ValidWords)}
    /\ wallet_call = NoWalletCall
    /\ response = NoResponse
    /\ dag = NoDag
    /\ sync = NoSync
    /\ links = NoLinks
    /\ retarget = NoRetarget

NextWallet ==
    \/ ManuallyInitialize
    \/ \E words \in {None, ValidWords, InvalidWords} : Unlock(words)
    \/ Lock
    \/ \E i \in 0..MaxKeyIndex : TokensReceived(get_address(i))
    \/ \E mark_as_used \in BOOLEAN : GetUnusedAddress(mark_as_used)

SpecWallet == InitWallet /\ [][NextWallet]_vars

\* the wallet after start-up, used without lock and unlock
NextKeys ==
    \/ ManuallyInitialize
    \/ \E i \in 0..MaxKeyIndex : TokensReceived(get_address(i))
    \/ \E mark_as_used \in BOOLEAN : GetUnusedAddress(mark_as_used)

SpecKeys == InitWallet /\ [][NextKeys]_vars

----------------------------------------------------------------------------
(* The DAG engine: on_new_vertex, step Integrate, and conflict resolution.  *)
(* save_transaction of the storage is where the manager hands a vertex to   *)
(* it; the engine is written from its description.                          *)

\* the largest weight of a vertex
MaxWeight == 2

\* the vertices of the double-spend scenario, by hash (hashes compare as
\* numbers): a genesis transaction, T1 and T2 that both spend its output,
\* T3 and T4 that both spend the output of T1, and a block on T2
TxG == 0
T1 == 1
T2 == 2
T3 == 3
T4 == 4
BlockOnT2 == 5
DagHashes == {TxG, T1, T2, T3, T4, BlockOnT2}

\* parents and spent outputs; every vertex has the one output 0
DagVertex(h) ==
    CASE h = TxG -> [hash |-> h, is_block |-> FALSE, parents |-> {},
                     inputs |-> {}]
      [] h = T1 -> [hash |-> h, is_block |-> FALSE, parents |-> {TxG},
                    inputs |-> {<<TxG, 0>>}]
      [] h = T2 -> [hash |-> h, is_block |-> FALSE, parents |-> {TxG},
                    inputs |-> {<<TxG, 0>>}]
      [] h = T3 -> [hash |-> h, is_block |-> FALSE, parents |-> {T1},
                    inputs |-> {<<T1, 0>>}]
      [] h = T4 -> [hash |-> h, is_block |-> FALSE, parents |-> {T1},
                    inputs |-> {<<T1, 0>>}]
      [] h = BlockOnT2 -> [hash |-> h, is_block |-> TRUE, parents |-> {T2},
                           inputs |-> {}]

\* the weights: those of T1, T2 and T3 vary
DagWeights ==
    { [h \in DagHashes |-> IF h \in {T1, T2, T3} THEN f[h] ELSE 1] :
        f \in [{T1, T2, T3} -> 1..MaxWeight] }

\* the transactions whose outputs v spends
spent_txs(v) == {i[1] : i \in v.inputs}

RECURSIVE dag_ancestors(_)
dag_ancestors(h) ==
    DagVertex(h).parents
        \cup UNION {dag_ancestors(p) : p \in DagVertex(h).parents}

\* the integrated vertices that have l among their ancestors
dag_descendants(e, l) == {d \in e.inserted : l \in dag_ancestors(d)}

is_void(m, h) == m[h].voided_by # {}

\* metadata of a vertex that is not stored
AbsentMetadata ==
    [children |-> {}, accumulated_weight |-> 0, voided_by |-> {},
     conflict_with |-> {}, score |-> 0, first_block |-> None,
     spent_outputs |-> {}]

\* "Store v with fresh metadata": the weight of the vertex itself, and the
\* marks of the void vertices it builds on
fresh_metadata(m, w, v) ==
    [AbsentMetadata EXCEPT
        !.accumulated_weight = w[v.hash],
        !.voided_by = UNION {m[p].voided_by : p \in v.parents \cup spent_txs(v)}]

\* "add v to p.metadata.children; recompute accumulated_weight += v.weight
\* and propagate to all non-void ancestors"
add_weight(m, w, v) ==
    [a \in DagHashes |->
        IF a \in v.parents
        THEN [m[a] EXCEPT !.children = @ \cup {v.hash},
                          !.accumulated_weight = @ + w[v.hash]]
        ELSE IF a \in dag_ancestors(v.hash) /\ ~is_void(m, a)
        THEN [m[a] EXCEPT !.accumulated_weight = @ + w[v.hash]]
        ELSE m[a]]

\* "the surviving vertex is the one with the largest accumulated_weight;
\* ties broken by smaller hash value"
beats(m, t, u) ==
    \/ m[t].accumulated_weight > m[u].accumulated_weight
    \/ /\ m[t].accumulated_weight = m[u].accumulated_weight
       /\ t < u

winner_LargerHash(m, spenders) ==
    CHOOSE t \in spenders :
        \A u \in spenders \ {t} :
            \/ m[t].accumulated_weight > m[u].accumulated_weight
            \/ /\ m[t].accumulated_weight = m[u].accumulated_weight
               /\ t > u

winner(m, spenders) ==
    CHOOSE t \in spenders : \A u \in spenders \ {t} : beats(m, t, u)

\* "Losers and every non-void descendant of a loser receive their own hash
\* (or the losing ancestor's) added to voided_by"
resolve_conflict(e, m, spenders) ==
    LET losers == spenders \ {winner(m, spenders)}
    IN  [x \in DagHashes |->
            [m[x] EXCEPT
                !.voided_by =
                    @ \cup (IF x \in losers THEN {x} ELSE {})
                      \cup IF is_void(m, x) THEN {}
                           ELSE {l \in losers : x \in dag_descendants(e, l)}]]

\* "for each input (h,i): ... add v to" the spenders of the output; "if the
\* set size becomes > 1, mark all spenders mutually conflicting; initiate
\* conflict resolution"
RECURSIVE spend_inputs(_, _, _, _)
spend_inputs(e, m, v, todo) ==
    IF todo = {} THEN m
    ELSE LET s == CHOOSE x \in todo : TRUE
             spenders == m[s].spent_outputs \cup {v.hash}
             m1 == [m EXCEPT ![s].spent_outputs = spenders]
             m2 == [x \in DagHashes |->
                       IF x \in spenders
                       THEN [m1[x] EXCEPT
                                !.conflict_with = @ \cup (spenders \ {x})]
                       ELSE m1[x]]
         IN  spend_inputs(e,
                          IF Cardinality(spenders) > 1
                          THEN resolve_conflict(e, m2, spenders)
                          ELSE m1,
                          v, todo \ {s})

\* "If v is a block, assign first_block = v.hash on every still-unconfirmed
\* non-void ancestor reachable only through v's transaction parents; fix
\* their score to their current accumulated_weight"
confirm(m, v) ==
    [a \in DagHashes |->
        IF /\ v.is_block
           /\ a \in dag_ancestors(v.hash)
           /\ m[a].first_block = None
           /\ ~is_void(m, a)
        THEN [m[a] EXCEPT !.first_block = <<"bytes", v.hash>>,
                          !.score = m[a].accumulated_weight]
        ELSE m[a]]

\* step 3 of on_new_vertex on the engine e
integrate(e, w, v) ==
    LET e1 == [e EXCEPT !.inserted = @ \cup {v.hash}]
        stored == [e.meta EXCEPT ![v.hash] = fresh_metadata(e.meta, w, v)]
        weighed == add_weight(stored, w, v)
        spent == spend_inputs(e1, weighed, v, spent_txs(v))
    IN  [inserted |-> e1.inserted, meta |-> confirm(spent, v)]

\* two nodes that are handed the same vertices, each in its own order
Replicas == {1, 2}

\* the engine with the genesis transaction only
NewEngine(w) ==
    [inserted |-> {TxG},
     meta |-> [h \in DagHashes |->
                  IF h = TxG
                  THEN [AbsentMetadata EXCEPT !.accumulated_weight = w[TxG]]
                  ELSE AbsentMetadata]]

\* vertex h reaches replica r, its parents after them
Arrive(r, h) ==
    /\ h \notin dag.node[r].inserted
    /\ DagVertex(h).parents \cup spent_txs(DagVertex(h))
           \subseteq dag.node[r].inserted
    /\ dag' = [dag EXCEPT
                  !.node[r] = integrate(@, dag.weight, DagVertex(h))]
    /\ UNCHANGED <<dagvars, p2pvars, metavars, walletvars, webvars, syncvars,
                   linkvars, retvars>>

InitDag ==
    /\ InitManager
    /\ storage = genesis_transactions
    /\ node = [n \in Nodes |-> [network |-> "testnet", my_peer |-> PeerOf(n)]]
    /\ InitP2P
    /\ meta = NoMetadata
    /\ cloned = NotCloned
    /\ wallet = NoWallet
    /\ wallet_call = NoWalletCall
    /\ response = NoResponse
    /\ sync = NoSync
    /\ links = NoLinks
    /\ retarget = NoRetarget
    /\ \E w \in DagWeights :
          dag = [weight |-> w, node |-> [r \in Replicas |-> NewEngine(w)]]

NextDag == \E r \in Replicas, h \in DagHashes : Arrive(r, h)

SpecDag == InitDag /\ [][NextDag]_vars

----------------------------------------------------------------------------
(* The sync manager (node_sync_manager): GET-DATA requests in flight per   *)
(* peer.  The manager forwards to it what it receives; the pull itself is   *)
(* written from its description.                                            *)

\* "up to in_flight_max GET-DATA requests outstanding per peer"
in_flight_max == 2

\* the vertices the node lacks and its peers have
WantedHashes == {ChainBlock(1), Tx3}

\* the hashes requested from some peer and not answered
requested(s) == UNION {s.in_flight[c] : c \in DOMAIN s.in_flight}

\* a GET-DATA for h is sent on connection c
SendGetData(c, h) ==
    /\ c \in connected_protocols(manager[1])
    /\ h \notin storage \cup requested(sync)
    /\ Cardinality(sync.in_flight[c]) < in_flight_max
    /\ sync' = [sync EXCEPT !.in_flight[c] = @ \cup {h}]
    /\ UNCHANGED <<dagvars, p2pvars, metavars, walletvars, webvars, engvars,
                   linkvars, retvars>>

\* the DATA for h arrives on connection c and goes to on_new_tx
OnData(c, h) ==
    /\ c \in connected_protocols(manager[1])
    /\ h \in sync.in_flight[c]
    /\ sync' = [sync EXCEPT !.in_flight[c] = @ \ {h}]
    /\ on_new_tx(Vertex(h), "on_new_tx")
    /\ UNCHANGED <<state, pending, sent_data, mining_block>>
    /\ UNCHANGED <<p2pvars, metavars, walletvars, webvars, engvars,
                   linkvars, retvars>>

\* a peer opens connection c.  A connection that was lost with requests
\* in flight is not opened again: the next one is another protocol object
SyncPeerConnects(c) ==
    /\ sync.in_flight[c] = {}
    /\ PeerConnects(c)

InitSync ==
    /\ InitManager
    /\ storage = genesis_transactions
    /\ node = [n \in Nodes |-> [network |-> "testnet", my_peer |-> PeerOf(n)]]
    /\ InitP2P
    /\ meta = NoMetadata
    /\ cloned = NotCloned
    /\ wallet = NoWallet
    /\ wallet_call = NoWalletCall
    /\ response = NoResponse
    /\ dag = NoDag
    /\ sync = [in_flight |-> [c \in Connections |-> {}]]
    /\ links = NoLinks
    /\ retarget = NoRetarget

NextSync ==
    \/ doStart
    \/ InitializeReplay
    \/ InitializeDone
    \/ \E c \in Connections : SyncPeerConnects(c)
    \/ \E c \in Connections : PeerReady(c)
    \/ \E c \in Connections : PeerDisconnects(c)
    \/ \E c \in Connections, h \in WantedHashes : SendGetData(c, h)
    \/ \E c \in Connections, h \in WantedHashes : OnData(c, h)

\* requests are sent while some can be, and answers arrive on open
\* connections; peers need not connect
SpecSyncFair ==
    /\ InitSync
    /\ [][NextSync]_vars
    /\ WF_vars(\E c \in Connections, h \in WantedHashes : SendGetData(c, h))
    /\ WF_vars(\E c \in Connections, h \in WantedHashes : OnData(c, h))

----------------------------------------------------------------------------
(* Vocabulary of the properties *)

TypeOK ==
    /\ state \in NodeState \cup {"NONE"}
    /\ storage \subseteq Hashes
    /\ cache \subseteq storage
    /\ pending \subseteq storage
    /\ block_weight \in Int

Running == NodeState \ {"INITIALIZING"}

\* the step is the call on_new_tx(Vertex(h)) made after start-up
CallStep(h) == state \in Running /\ on_new_tx(Vertex(h), "on_new_tx")

\* the step is the call on_new_tx(Vertex(h)) made by the start-up replay
ReplayStep(h) ==
    state = "INITIALIZING" /\ h \in pending /\ on_new_tx(Vertex(h), "replay")

IsCall == last.op \in {"on_new_tx", "replay"}

\* the step accepted a block and the block count then was a multiple of
\* blocks_per_difficulty
RetargetStep ==
    /\ last'.op \in {"on_new_tx", "replay"}
    /\ last'.result = "accepted"
    /\ Vertex(last'.tx).is_block
    /\ cache' # cache
    /\ get_block_count(cache') % blocks_per_difficulty = 0

Max(a, b) == IF a >= b THEN a ELSE b
Min(a, b) == IF a <= b THEN a ELSE b
Clamp(x, lo, hi) == Max(lo, Min(hi, x))
Abs(x) == IF x < 0 THEN -x ELSE x

----------------------------------------------------------------------------
(* C1: a vertex whose hash is already in storage, offered in any state     *)
(* other than INITIALIZING, is rejected as already known, and the storage, *)
(* the latest_blocks window and block_weight stay exactly as they were.    *)
C1_KnownVertexIsNoOp ==
    [][\A h \in Hashes :
          (h \in storage /\ CallStep(h)) =>
              /\ last'.result \in {"known", "genesis"}
              /\ UNCHANGED <<storage, cache, latest_blocks, block_weight>>
      ]_vars

\* a stored block was offered again after start-up and turned away
C1_Witness ==
    /\ last.op = "on_new_tx"
    /\ last.result = "known"
    /\ state \in Running
    /\ Len(latest_blocks) >= 2

(* C2: every non-genesis vertex in storage has all its parents in storage, *)
(* and a vertex with a parent absent from storage is rejected, not stored. *)
C2_ParentsStored ==
    /\ [](\A h \in storage :
             ~Vertex(h).is_genesis => Vertex(h).parents \subseteq storage)
    /\ [][\A h \in Hashes :
             (CallStep(h) /\ ~(Vertex(h).parents \subseteq storage)) =>
                 /\ last'.result # "accepted"
                 /\ h \notin storage'
                 /\ UNCHANGED <<storage, cache>>
         ]_vars

\* a vertex with an unknown parent was turned away
C2_Witness ==
    /\ last.op = "on_new_tx"
    /\ last.result = "unknown_parent"
    /\ storage # genesis_transactions

(* C3: a block accepted by on_new_tx has weight >= block_weight as it was  *)
(* when the block was accepted; a block of lower weight is rejected and    *)
(* not stored.                                                             *)
C3_AcceptedBlockMeetsWeight ==
    [][\A h \in Hashes :
          (Vertex(h).is_block /\ (CallStep(h) \/ ReplayStep(h))) =>
              /\ last'.result = "accepted" =>
                     Vertex(h).weight >= block_weight
              /\ Vertex(h).weight < block_weight =>
                     /\ last'.result # "accepted"
                     /\ h \in storage' <=> h \in storage
                     /\ UNCHANGED <<cache, latest_blocks, block_weight>>
      ]_vars

\* a block whose weight was enough at start-up is turned away after a
\* retarget has raised block_weight
C3_Witness ==
    /\ last.op = "on_new_tx"
    /\ last.result = "low_weight"
    /\ block_weight > initial_block_weight
    /\ BlockW10 \notin storage

(* C4 (as claimed): a block whose outputs do not sum to                    *)
(* tokens_issued_per_block is never stored by on_new_tx and never appended *)
(* to the difficulty window.                                               *)
C4_BadSumBlockRejected ==
    \A h \in Hashes :
        (Vertex(h).is_block /\ ~Vertex(h).is_genesis
         /\ Vertex(h).sum_outputs # tokens_issued_per_block) =>
            /\ h \notin storage
            /\ \A i \in 1..Len(latest_blocks) : latest_blocks[i] # h

(* C5: a retarget sets block_weight to                                     *)
(* max(min_block_weight, block_weight + delta) with                        *)
(* dt = max(1, last.timestamp - first.timestamp) over the window and       *)
(* delta = log2(avg_time_between_blocks) + log2(blocks_per_difficulty)     *)
(* - log2(dt) clamped to +-max_allowed_block_weight_change; five blocks    *)
(* 32 s apart at weight 10 give dt = 128 and a new weight of about 11.32.  *)
C5_Dt(blocks) ==
    Max(1, Vertex(blocks[Len(blocks)]).timestamp - Vertex(blocks[1]).timestamp)

C5_NewWeight(blocks, weight) ==
    Max(min_block_weight,
        weight + Clamp(Log2Fix(avg_time_between_blocks)
                       + Log2Fix(blocks_per_difficulty)
                       - Log2Fix(C5_Dt(blocks)),
                       -max_allowed_block_weight_change,
                       max_allowed_block_weight_change))

C5_Example == <<BLOCK_GENESIS, ChainBlock(1), ChainBlock(2), ChainBlock(3),
                ChainBlock(4)>>

C5_RetargetFormula ==
    [][RetargetStep =>
          /\ block_weight' = C5_NewWeight(latest_blocks', block_weight)
          /\ (latest_blocks' = C5_Example
              /\ block_weight = 10 * WeightUnit) =>
                 /\ calculate_block_difficulty(latest_blocks',
                                               block_weight).dt = 128
                 /\ Abs(100 * block_weight' - 1132 * WeightUnit) <= WeightUnit
      ]_vars

\* the window of the example has just been retargeted
C5_Witness ==
    /\ IsCall
    /\ last.result = "accepted"
    /\ last.tx = ChainBlock(4)
    /\ latest_blocks = C5_Example
    /\ get_block_count(cache) = blocks_per_difficulty
    /\ block_weight > 11 * WeightUnit

(* C6: block_weight changes only in an on_new_tx call that accepts a block *)
(* and leaves the block count a multiple of blocks_per_difficulty;         *)
(* accepting a transaction, accepting a block at another count, or         *)
(* rejecting a vertex leaves it unchanged.                                 *)
C6_WeightChangesOnlyOnRetarget ==
    [][block_weight' # block_weight => RetargetStep]_vars

\* a retarget that changed block_weight, with a transaction and other
\* blocks accepted around it
C6_Witness ==
    /\ IsCall
    /\ last.result = "accepted"
    /\ Vertex(last.tx).is_block
    /\ get_block_count(cache) = 2 * blocks_per_difficulty
    /\ block_weight # initial_block_weight
    /\ Tx3 \in cache

(* C7: block_weight is never below min_block_weight, and one retarget      *)
(* moves it by at most max_allowed_block_weight_change either way.         *)
C7_WeightBounded ==
    /\ [](block_weight >= min_block_weight)
    /\ [][Abs(block_weight' - block_weight)
              <= max_allowed_block_weight_change]_vars

\* a second retarget brought block_weight down by the full allowed change
C7_Witness ==
    /\ IsCall
    /\ last.result = "accepted"
    /\ get_block_count(cache) = 2 * blocks_per_difficulty
    /\ latest_blocks[Len(latest_blocks)] = BlockLate
    /\ last.old_weight = min_block_weight + max_allowed_block_weight_change
    /\ block_weight = min_block_weight

----------------------------------------------------------------------------
(* Properties of the peer connection, under SpecP2P *)

SameNetworkDistinctIds ==
    /\ node[1].network = node[2].network
    /\ node[1].my_peer # node[2].my_peer

\* the first k commands a protocol has handled
Consumed(n, k) == SubSeq(proto[n].received, 1, Min(k, Len(proto[n].received)))

(* C8: two nodes of one network with distinct peer ids, exchanging their   *)
(* output step by step, both consume HELLO then PEER-ID and are READY      *)
(* after two steps (each registered as connected at the other's manager),  *)
(* and neither transport is disconnecting at any step, the two steps after *)
(* READY included.                                                         *)
C8_HandshakeSucceeds ==
    SameNetworkDistinctIds =>
        \A n \in Nodes :
            /\ ~proto[n].disconnecting
            /\ ~manager[n].raised
            /\ steps = 1 =>
                   /\ Consumed(n, 1) = <<"HELLO">>
                   /\ proto[n].state = "PEER_ID_SENT"
                   /\ proto[n].tr = <<PeerIdMessage(n)>>
            /\ steps >= 2 =>
                   /\ Consumed(n, 2) = <<"HELLO", "PEER-ID">>
                   /\ proto[n].state = "READY"
                   /\ manager[n].handshaking_peers = {}
                   /\ DOMAIN manager[n].connected_peers
                          = {node[Other(n)].my_peer}
                   /\ manager[n].connected_peers[node[Other(n)].my_peer] = n

\* both sides READY, two further steps made, nothing left to read
C8_Witness ==
    /\ SameNetworkDistinctIds
    /\ steps = 4
    /\ \A n \in Nodes :
          /\ proto[n].state = "READY"
          /\ proto[n].received = <<"HELLO", "PEER-ID", "GET-PEERS", "PEERS">>
          /\ proto[n].tr = <<>>

C9_FirstIsHello ==
    \A n \in Nodes :
        proto[n].sent # <<>> => proto[n].sent[1] = "HELLO"

C9_PeerIdAfterValidHello ==
    \A n \in Nodes :
        (\E i \in 1..Len(proto[n].sent) : proto[n].sent[i] = "PEER-ID") =>
            /\ Consumed(n, 1) = <<"HELLO">>
            /\ node[Other(n)].network = node[n].network

(* C9 (as claimed): the first message an endpoint emits is HELLO, PEER-ID  *)
(* is emitted only after the peer's HELLO was received and validated, and  *)
(* the connection state only ever moves to the next state of HELLO,        *)
(* PEER-ID, READY, CLOSED, never skipping one.                             *)
C9_StrictPhaseOrder ==
    /\ [](C9_FirstIsHello /\ C9_PeerIdAfterValidHello)
    /\ [][\A n \in Nodes :
             proto'[n].state # proto[n].state =>
                 Phase(proto'[n].state) = Phase(proto[n].state) + 1
         ]_vars

(* C9 (amended): the first message an endpoint emits is HELLO, PEER-ID is  *)
(* emitted only after the peer's HELLO was received and validated, and the *)
(* connection state never moves backwards and enters HELLO, PEER-ID and    *)
(* READY only from the state just before; CLOSED is entered from any of    *)
(* them.                                                                   *)
C9_PhaseOrder ==
    /\ [](C9_FirstIsHello /\ C9_PeerIdAfterValidHello)
    /\ [][\A n \in Nodes :
             proto'[n].state # proto[n].state =>
                 /\ Phase(proto'[n].state) > Phase(proto[n].state)
                 /\ proto'[n].state # "CLOSED" =>
                        Phase(proto'[n].state) = Phase(proto[n].state) + 1
         ]_vars

\* one side went through HELLO and PEER-ID and was closed before READY
C9_Witness ==
    \E n \in Nodes :
        /\ proto[n].state = "CLOSED"
        /\ proto[n].sent = <<"HELLO", "PEER-ID", "ERROR">>
        /\ proto[n].received = <<"HELLO", "PEER-ID">>

(* C10: an endpoint that receives a HELLO of another network replies ERROR *)
(* first, its transport is disconnecting, and it never sends PEER-ID and   *)
(* never is READY on that connection.                                      *)
C10_NetworkMismatch ==
    \A n \in Nodes :
        (Consumed(n, 1) = <<"HELLO">>
         /\ node[Other(n)].network # node[n].network) =>
            /\ proto[n].sent = <<"HELLO", "ERROR">>
            /\ proto[n].disconnecting
            /\ proto[n].state = "CLOSED"
            /\ proto[n].peer = NoPeer
            /\ manager[n].connected_peers = <<>>

\* a testnet node has read the HELLO of a mainnet node
C10_Witness ==
    /\ node[1].network = "testnet"
    /\ node[2].network = "mainnet"
    /\ steps >= 1
    /\ proto[1].received = <<"HELLO">>
    /\ proto[1].tr = <<Command("ERROR")>>
    /\ proto[1].disconnecting

(* C11: when the remote endpoint presents the local node's own peer id,   *)
(* the local endpoint replies ERROR after the HELLO and PEER-ID exchange   *)
(* and its transport is disconnecting; the connection never is READY and   *)
(* the id is never added to connected_peers.                               *)
C11_SamePeerId ==
    \A n \in Nodes :
        /\ node[n].my_peer \notin DOMAIN manager[n].connected_peers
        /\ (Consumed(n, 2) = <<"HELLO", "PEER-ID">>
            /\ node[Other(n)].my_peer = node[n].my_peer) =>
               /\ proto[n].sent = <<"HELLO", "PEER-ID", "ERROR">>
               /\ proto[n].disconnecting
               /\ proto[n].state = "CLOSED"
               /\ proto[n].peer = NoPeer
               /\ manager[n].connected_peers = <<>>

\* node 1 has read the PEER-ID of a node that uses its own id
C11_Witness ==
    /\ node[1].my_peer = node[2].my_peer
    /\ steps = 2
    /\ proto[1].received = <<"HELLO", "PEER-ID">>
    /\ proto[1].tr = <<Command("ERROR")>>
    /\ proto[1].disconnecting

----------------------------------------------------------------------------
(* Properties of the peer connection with lines written by hand, under     *)
(* SpecInject                                                              *)

\* the commands a protocol state handles
ExpectedCommands(st) ==
    CASE st = "HELLO_SENT" -> {"HELLO"}
      [] st = "PEER_ID_SENT" -> {"PEER-ID"}
      [] st = "READY" -> {"GET-PEERS", "PEERS"}
      [] OTHER -> {}

\* the protocol of node n is in a state that handles lines
Listening(n) ==
    /\ ~proto[n].disconnecting
    /\ proto[n].state \in {"HELLO_SENT", "PEER_ID_SENT", "READY"}

(* C12: in the HELLO phase an unknown command closes the connection, and a *)
(* HELLO with no payload, a payload that is not JSON or an empty JSON      *)
(* object makes the endpoint send ERROR and close; in every connection     *)
(* state a malformed or wrong-state message leaves the transport           *)
(* disconnecting.                                                          *)
C12_BadLineCloses ==
    [][\A n \in Nodes, msg \in InjectedLines :
          (Listening(n) /\ send_cmd(n, msg)) =>
              /\ (proto[n].state = "HELLO_SENT"
                  /\ msg = Command("INVALID-CMD")) =>
                     proto'[n].disconnecting
              /\ (proto[n].state = "HELLO_SENT" /\ msg.cmd = "HELLO"
                  /\ msg.payload \in {"none", "invalid", "empty"}) =>
                     /\ proto'[n].sent = Append(proto[n].sent, "ERROR")
                     /\ proto'[n].tr = Append(proto[n].tr, Command("ERROR"))
                     /\ proto'[n].disconnecting
              /\ (~well_formed(msg)
                  \/ msg.cmd \notin ExpectedCommands(proto[n].state)) =>
                     /\ proto'[n].disconnecting
                     /\ proto'[n].state = "CLOSED"
      ]_vars

\* a protocol that is READY was closed by a line that does not parse
C12_Witness ==
    \E n \in Nodes :
        /\ proto[n].injected = <<Malformed("PEERS", "invalid")>>
        /\ proto[n].received
              = <<"HELLO", "PEER-ID", "GET-PEERS", "PEERS", "PEERS">>
        /\ proto[n].sent = <<"HELLO", "PEER-ID", "GET-PEERS", "PEERS", "ERROR">>
        /\ proto[n].disconnecting

----------------------------------------------------------------------------
(* Start-up, under Spec *)

(* C13: doStart puts the node in INITIALIZING, replays every stored vertex *)
(* through on_new_tx, parents before children, while in that state, and    *)
(* only then moves to WAITING_FOR_PEERS; after that the node never is      *)
(* INITIALIZING again.                                                     *)
C13_StartUpReplay ==
    /\ [](state = "INITIALIZING" => last.op \in {"doStart", "replay"})
    /\ [](state \in Running => pending = {})
    /\ [][/\ state' = "INITIALIZING" =>
                \/ state = "INITIALIZING"
                \/ state = "NONE" /\ pending' = storage
          /\ state = "INITIALIZING" =>
                \/ state' = "INITIALIZING"
                \/ state' = "WAITING_FOR_PEERS" /\ pending = {}
          /\ (state = "INITIALIZING" /\ pending' # pending) =>
                \E h \in pending :
                    /\ pending' = pending \ {h}
                    /\ Vertex(h).parents \cap pending = {}
                    /\ ReplayStep(h)
       ]_vars

\* the stored chain has been replayed, retarget included, and the node
\* waits for peers
C13_Witness ==
    /\ state = "WAITING_FOR_PEERS"
    /\ last.op = "initialized"
    /\ ChainBlock(4) \in storage
    /\ cache = storage
    /\ latest_blocks = C5_Example
    /\ block_weight > initial_block_weight

----------------------------------------------------------------------------
(* Propagation, under SpecNet *)

(* C14: propagate_tx calls send_data on connected peers only, and only    *)
(* when the node state is SYNCED; in INITIALIZING, WAITING_FOR_PEERS and  *)
(* SYNCING it calls send_data on no peer.                                 *)
C14_PropagateOnlyWhenSynced ==
    [][\A h \in PushedHashes :
          propagate_tx(Vertex(h)) =>
              /\ sent_data' \subseteq connected_protocols(manager[1])
              /\ state \in {"INITIALIZING", "WAITING_FOR_PEERS", "SYNCING"}
                     => sent_data' = {}
              /\ state = "SYNCED"
                     => sent_data' = connected_protocols(manager[1])
      ]_vars

\* a block pushed and accepted while the node was syncing and both peers
\* were connected: no connection was sent it
C14_Witness ==
    /\ state = "SYNCING"
    /\ last = [op |-> "propagate_tx", tx |-> ChainBlock(1),
               result |-> "accepted", old_weight |-> block_weight,
               calls |-> {"wallet.on_new_tx", "tx_storage.save_transaction",
                          "node_sync_manager.on_new_tx"}]
    /\ connected_protocols(manager[1]) = Connections
    /\ sent_data = {}
    /\ Tx3 \in storage

----------------------------------------------------------------------------
(* Mining, under SpecMining *)

\* a step in which generate_mining_block returned a new block
GenerateStep == GenerateMiningBlock /\ mining_block' # mining_block

\* the parents of block b that are blocks
block_parents(b) == {x \in b.parents : Vertex(x).is_block}

(* C15: the block generate_mining_block returns has height 1 plus the     *)
(* largest height among its parents, block tips and transaction parents   *)
(* alike, and so a height above that of every parent.                     *)
C15_HeightAboveParents ==
    mining_block # NoBlock =>
        /\ \E x \in mining_block.parents :
              mining_block.height = Vertex(x).height + 1
        /\ \A x \in mining_block.parents :
              /\ Vertex(x).height + 1 <= mining_block.height
              /\ Vertex(x).height < mining_block.height

\* a block generated on the genesis block (height 1) and Tx4 (height 3)
C15_Witness ==
    /\ mining_block # NoBlock
    /\ block_parents(mining_block) = {BLOCK_GENESIS}
    /\ Tx4 \in mining_block.parents
    /\ mining_block.height = 4

(* C16: the block generate_mining_block returns carries the current       *)
(* block_weight and exactly one output, of tokens_issued_per_block; handed*)
(* to on_new_tx before any other vertex is accepted, it is not rejected   *)
(* for its weight or for the tokens it issues.                            *)
C16_MinedBlockPassesChecks ==
    /\ [](mining_block # NoBlock =>
             /\ Len(mining_block.outputs) = 1
             /\ mining_block.outputs[1].value = tokens_issued_per_block
             /\ mining_block.sum_outputs = tokens_issued_per_block)
    /\ [][/\ GenerateStep => mining_block'.weight = block_weight
          /\ (SubmitMinedBlock /\ mining_block.made_after = cache) =>
                /\ ~(mining_block.weight < block_weight)
                /\ last'.result = "accepted"
                /\ MinedBlock \in storage'
       ]_vars

\* the block was generated after the replayed chain had raised the weight,
\* and was accepted when handed back
C16_Witness ==
    /\ last.op = "submit_block"
    /\ last.result = "accepted"
    /\ MinedBlock \in storage
    /\ cache = mining_block.made_after \cup {MinedBlock}
    /\ mining_block.weight > initial_block_weight
    /\ mining_block.weight = block_weight

\* a step on a started node holding the genesis vertices only
FreshNode ==
    /\ state \in Running
    /\ storage = genesis_transactions
    /\ cache = genesis_transactions

(* C17 as stated: on a fresh node holding only the three genesis vertices *)
(* generate_mining_block returns a block with 2 parents and height 2, and *)
(* once on_new_tx has accepted it the block count is 2.                   *)
C17_TwoParents ==
    [][/\ (FreshNode /\ GenerateStep) =>
              /\ mining_block'.num_parents = 2
              /\ mining_block'.height = 2
       /\ (FreshNode /\ SubmitMinedBlock /\ last'.result = "accepted") =>
              get_block_count(cache') = 2
      ]_vars

(* C17, amended: on a fresh node holding only the three genesis vertices  *)
(* generate_mining_block returns a block with 3 parents, the genesis block*)
(* and the two genesis transactions, and height 2, and once on_new_tx has *)
(* accepted it the block count is 2.                                      *)
C17_ThreeParents ==
    [][/\ (FreshNode /\ GenerateStep) =>
              /\ mining_block'.num_parents = 3
              /\ mining_block'.parents = genesis_transactions
              /\ mining_block'.height = 2
       /\ (FreshNode /\ SubmitMinedBlock /\ last'.result = "accepted") =>
              get_block_count(cache') = 2
      ]_vars

\* the first block mined on the genesis vertices has been accepted
C17_Witness ==
    /\ last.op = "submit_block"
    /\ last.result = "accepted"
    /\ storage = genesis_transactions \cup {MinedBlock}
    /\ mining_block.made_after = genesis_transactions
    /\ mining_block.num_parents = 3
    /\ get_block_count(cache) = 2

(* C18: whenever the storage has a tip transaction, get_new_tx_parents    *)
(* returns exactly two distinct transaction hashes: both tips when two    *)
(* exist, the single tip and one of its own parents when only one exists. *)
C18_TwoTxParents ==
    tip_transactions # {} =>
        /\ get_new_tx_parents # {}
        /\ \A ret \in get_new_tx_parents :
              /\ Len(ret) = 2
              /\ ret[1] # ret[2]
              /\ \A i \in 1..2 : ret[i] \in storage /\ ~Vertex(ret[i]).is_block
              /\ Cardinality(tip_transactions) >= 2 =>
                    {ret[1], ret[2]} \subseteq tip_transactions
              /\ Cardinality(tip_transactions) = 1 =>
                    /\ ret[1] \in tip_transactions
                    /\ ret[2] \in Vertex(ret[1]).parents

\* Tx4 is the only tip, and the block generated took Tx4 and its parent
\* TX_GENESIS1
C18_Witness ==
    /\ tip_transactions = {Tx4}
    /\ mining_block # NoBlock
    /\ mining_block.made_after = cache
    /\ mining_block.parents \ block_parents(mining_block)
           = {Tx4, TX_GENESIS1}

(* C19: generate_mining_block uses at most two block tips as block        *)
(* parents, even when the storage has more than two tip blocks.           *)
C19_AtMostTwoBlockParents ==
    mining_block # NoBlock =>
        Cardinality(block_parents(mining_block)) <= 2

----------------------------------------------------------------------------
(* Reconnection, under SpecDial *)

\* the peers a tick of the manager m has to dial
to_dial(m) ==
    {p \in m.peer_storage :
        entrypoints(p) # {} /\ p \notin DOMAIN m.connected_peers}

(* C20: on each reconnection tick a dial is started for every peer of the *)
(* peer storage that has an entrypoint and whose id is not in             *)
(* connected_peers, always to one of that peer's own entrypoints; no dial *)
(* is started for a peer whose id is in connected_peers or that has no    *)
(* entrypoint.  Ticks start only once doStart has run.                    *)
C20_TickDialsDisconnected ==
    [][ReconnectTick =>
          /\ state \in Running
          /\ \A p \in to_dial(manager[1]) :
                \E e \in entrypoints(p) : <<p, e>> \in manager'[1].dialed
          /\ \A d \in manager'[1].dialed :
                /\ d[1] \in to_dial(manager[1])
                /\ d[2] \in entrypoints(d[1])
                /\ d[2] \in manager'[1].connecting_peers
      ]_vars

\* a tick has dialled peer_id3 and peer_id4 and no other: peer_id2 is
\* connected and peer_id5 announces no entrypoint
C20_Witness ==
    /\ manager[1].peer_storage =
           {"peer_id2", "peer_id3", "peer_id4", "peer_id5"}
    /\ DOMAIN manager[1].connected_peers = {"peer_id2"}
    /\ manager[1].dialed = {<<"peer_id3", "tcp:host3:40403">>,
                            <<"peer_id4", "tcp:host4:40403">>}
    /\ manager[1].connecting_peers = {"tcp:host3:40403", "tcp:host4:40403"}

(* C21: when a peer's id becomes connected through a connection while a  *)
(* dial to that peer is still recorded in connecting_peers, the dial is   *)
(* cancelled and removed from connecting_peers.                           *)
C21_DialCancelledOnReady ==
    [][\A c \in Connections :
          (PeerReady(c) /\ ~manager'[1].raised) =>
              entrypoints(PeerOfConnection(c))
                  \cap manager'[1].connecting_peers = {}
      ]_vars

----------------------------------------------------------------------------
(* Metadata cloning, under SpecMeta *)

(* C22: for every TransactionMetadata m, m.clone() succeeds, is equal to  *)
(* m on the ten compared fields and shares no mutable set or map with m;  *)
(* so also for m with hash None, with first_block None, and with an       *)
(* output index of spent_outputs mapped to the empty set.                 *)
C22_CloneIsExactCopy ==
    cloned # NotCloned =>
        /\ cloned # Raised("TypeError")
        /\ __eq__(cloned, meta)
        /\ \A f, g \in MetaContainers : cloned.refs[f] # meta.refs[g]

----------------------------------------------------------------------------
(* The wallet, under SpecWallet *)

(* C23: in any sequence of get_unused_address and tokens_received calls   *)
(* made before the gap limit is reached, get_unused_address, with either  *)
(* value of mark_as_used, never returns an address already used: one that *)
(* an earlier get_unused_address(mark_as_used=True) returned or that      *)
(* tokens_received has reported.                                          *)
C23_UnusedAddressIsUnused ==
    [][\A mark_as_used \in BOOLEAN :
          (/\ GetUnusedAddress(mark_as_used)
           /\ wallet.last_shared_index # wallet.last_generated_index) =>
              wallet_call'.result \notin wallet.used
      ]_vars

(* C26: an unlock attempt with wrong credentials (invalid mnemonic words  *)
(* passed to HDWallet.unlock) fails and leaves the wallet locked:         *)
(* is_locked() is still true afterwards, and only a successful unlock     *)
(* makes is_locked() false.                                               *)
C26_FailedUnlockStaysLocked ==
    [][/\ \A words \in {None, ValidWords, InvalidWords} :
             (/\ Unlock(words)
              /\ is_locked(wallet)
              /\ words # None /\ ~mnemonic_check(words)) =>
                 /\ wallet_call'.result = <<"str", "InvalidWords">>
                 /\ is_locked(wallet')
       /\ (is_locked(wallet) /\ ~is_locked(wallet')) =>
             wallet_call' = [op |-> "unlock", result |-> None]
      ]_vars

\* C24: POST /mining answers '1' when propagate_tx accepted the posted
\* block and '0' when it was rejected
C24_PostAnswersAcceptance ==
    [][\A h \in PostedHashes :
          render_POST(h) =>
              response'.body = IF last'.result = "accepted"
                               THEN "1" ELSE "0"]_vars

\* C25: GET /mining without an address answers with a block to mine, and
\* with an address that cannot be decoded it answers success=false with
\* 'Invalid address' and generates no block
C25_GetWithoutAddress ==
    [][\A args \in RequestArgs :
          render_GET(TRUE, args) =>
              /\ "address" \notin DOMAIN args =>
                    /\ response'.code = 200
                    /\ "block" \in DOMAIN response'.body
              /\ ("address" \in DOMAIN args
                      /\ args.address = InvalidAddressText) =>
                    /\ response'.body = [success |-> FALSE,
                                         message |-> "Invalid address"]
                    /\ mining_block' = mining_block]_vars

(* The DAG engine, under SpecDag *)

RECURSIVE sum_weight(_, _)
sum_weight(w, S) ==
    IF S = {} THEN 0
    ELSE LET x == CHOOSE y \in S : TRUE
         IN  w[x] + sum_weight(w, S \ {x})

\* C27: after any sequence of insertions the accumulated_weight of every
\* vertex is the sum of the weights of the vertex and of its non-void
\* descendants
C27_AccumulatedWeightIsSum ==
    \A r \in Replicas :
        \A v \in dag.node[r].inserted :
            dag.node[r].meta[v].accumulated_weight =
                sum_weight(dag.weight,
                    {v} \cup {d \in dag_descendants(dag.node[r], v) :
                                 ~is_void(dag.node[r].meta, d)})

\* C28: two arrival orders of the same vertices, parents before children,
\* leave the same score, accumulated_weight, voided_by and conflict_with
\* on every vertex
C28_OrderIndependent ==
    \A r1, r2 \in Replicas :
        dag.node[r1].inserted = dag.node[r2].inserted =>
            \A v \in dag.node[r1].inserted :
                LET m1 == dag.node[r1].meta[v]
                    m2 == dag.node[r2].meta[v]
                IN  /\ m1.score = m2.score
                    /\ m1.accumulated_weight = m2.accumulated_weight
                    /\ m1.voided_by = m2.voided_by
                    /\ m1.conflict_with = m2.conflict_with

Suffix(q, n) == SubSeq(q, Len(q) - n + 1, Len(q))

\* C32: latest_blocks holds the most recently accepted blocks in the order
\* they were accepted, never more than blocks_per_difficulty of them, and
\* never a rejected block or a transaction
C32_LatestBlocksWindow ==
    /\ [](/\ Len(latest_blocks) <= blocks_per_difficulty
          /\ \A i \in DOMAIN latest_blocks :
                /\ Vertex(latest_blocks[i]).is_block
                /\ latest_blocks[i] \in cache)
    /\ [][\A h \in Hashes :
             (CallStep(h) \/ ReplayStep(h)) =>
                 latest_blocks' =
                     IF validate_new_tx(Vertex(h)) /\ Vertex(h).is_block
                     THEN Suffix(Append(latest_blocks, h),
                                 Min(Len(latest_blocks) + 1,
                                     blocks_per_difficulty))
                     ELSE latest_blocks
         ]_vars

\* the window has rolled past the genesis block and a block of low weight
\* was just rejected
C32_Witness ==
    /\ Len(latest_blocks) = blocks_per_difficulty
    /\ latest_blocks[1] # BLOCK_GENESIS
    /\ last.op = "on_new_tx"
    /\ last.result = "low_weight"
    /\ Tx3 \in cache

\* C33: when validate_new_tx rejects a vertex (unknown parent, verification
\* error, genesis after initialization, block weight too low), on_new_tx
\* returns without raising and changes nothing: storage, wallet,
\* latest_blocks and block_weight are untouched and the sync manager is not
\* notified
C33_RejectionChangesNothing ==
    [][\A h \in Hashes :
          ((CallStep(h) \/ ReplayStep(h)) /\ ~validate_new_tx(Vertex(h))) =>
              /\ last'.result \in {"genesis", "known", "unknown_parent",
                                   "verify_error", "low_weight"}
              /\ UNCHANGED <<storage, cache, latest_blocks, block_weight>>
              /\ last'.calls = {}
      ]_vars

\* a genesis vertex was offered after initialization and rejected
C33_Witness ==
    /\ state \in Running
    /\ last.op = "on_new_tx"
    /\ last.result = "genesis"
    /\ last.calls = {}
    /\ ChainBlock(1) \in storage

(* Relaying, under SpecNet *)

\* C34: propagate_tx relays a vertex to connected peers only if on_new_tx
\* accepted it: a vertex that fails validation is sent to no peer, even
\* when the node is SYNCED
C34_RelayOnlyAccepted ==
    [][\A h \in PushedHashes :
          (propagate_tx(Vertex(h)) /\ ~validate_new_tx(Vertex(h))) =>
              sent_data' = {}
      ]_vars

----------------------------------------------------------------------------
(* The peer events as the manager sees them: every connection is followed  *)
(* on its own, with the peer its protocol knows (protocol.peer), so that   *)
(* two connections can present the same peer id.                           *)

\* the connections opened to node 1: conn3 and conn4 both belong to
\* peer_id3 (PeerOfConnection)
Links == Connections \cup {"conn4"}

\* a connection before it is opened
NewLink == [status |-> "none", peer |-> NoPeer]

\* connection c is opened: the protocol calls on_peer_connect
LinkConnects(c) ==
    /\ state # "NONE"
    /\ links[c].status = "none"
    /\ manager' = [manager EXCEPT ![1] = on_peer_connect(@, c)]
    /\ links' = [links EXCEPT ![c].status = "handshaking"]
    /\ UNCHANGED <<node, proto, steps>>
    /\ UNCHANGED dagvars
    /\ UNCHANGED <<metavars, walletvars, webvars, engvars, syncvars, retvars>>

\* the PEER-ID of connection c is handled: the protocol keeps the peer and
\* calls on_peer_ready
LinkReady(c) ==
    /\ links[c].status = "handshaking"
    /\ manager' = [manager EXCEPT
                      ![1] = on_peer_ready(@, c, PeerOfConnection(c))]
    /\ links' = [links EXCEPT ![c] = [status |-> "ready",
                                      peer |-> PeerOfConnection(c)]]
    /\ UNCHANGED <<node, proto, steps>>
    /\ UNCHANGED dagvars
    /\ UNCHANGED <<metavars, walletvars, webvars, engvars, syncvars, retvars>>

\* connection c is lost: the protocol calls on_peer_disconnect, which
\* reads protocol.peer
LinkDisconnects(c) ==
    /\ links[c].status \in {"handshaking", "ready"}
    /\ manager' = [manager EXCEPT
                      ![1] = on_peer_disconnect(@, c, links[c].peer)]
    /\ links' = [links EXCEPT ![c].status = "closed"]
    /\ UNCHANGED <<node, proto, steps>>
    /\ UNCHANGED dagvars
    /\ UNCHANGED <<metavars, walletvars, webvars, engvars, syncvars, retvars>>

InitLinks ==
    /\ InitManager
    /\ storage = genesis_transactions
    /\ node = [n \in Nodes |-> [network |-> "testnet", my_peer |-> PeerOf(n)]]
    /\ InitP2P
    /\ meta = NoMetadata
    /\ cloned = NotCloned
    /\ wallet = NoWallet
    /\ wallet_call = NoWalletCall
    /\ response = NoResponse
    /\ dag = NoDag
    /\ sync = NoSync
    /\ links = [c \in Links |-> NewLink]
    /\ retarget = NoRetarget

NextLinks ==
    \/ doStart
    \/ \E c \in Links : LinkConnects(c)
    \/ \E c \in Links : LinkReady(c)
    \/ \E c \in Links : LinkDisconnects(c)

SpecLinks == InitLinks /\ [][NextLinks]_vars

\* C35: whatever the order of connect, ready and disconnect on the
\* connections, two of them presenting the same peer id included, no
\* protocol is in handshaking_peers and in connected_peers at once, every
\* entry of connected_peers is a ready connection that is not lost, filed
\* under its own peer id, and no handler has raised
C35_PeerSetsConsistent ==
    /\ manager[1].handshaking_peers \cap connected_protocols(manager[1]) = {}
    /\ \A id \in DOMAIN manager[1].connected_peers :
          LET c == manager[1].connected_peers[id]
          IN  links[c] = [status |-> "ready", peer |-> id]
    /\ ~manager[1].raised

\* what on_new_tx does with the accepted vertex h in the state it is
\* called in
C36_AcceptedGoesTo(h) ==
    IF state = "INITIALIZING"
    THEN /\ cache' = cache \cup {h}
         /\ storage' = storage
         /\ "tx_storage._add_to_cache" \in last'.calls
         /\ last'.calls \cap {"tx_storage.save_transaction",
                              "node_sync_manager.on_new_tx"} = {}
         /\ sent_data' = {}
    ELSE /\ h \notin storage
         /\ storage' = storage \cup {h}
         /\ {"tx_storage.save_transaction",
             "node_sync_manager.on_new_tx"} \subseteq last'.calls
         /\ "tx_storage._add_to_cache" \notin last'.calls

\* C36: a vertex accepted while the node is INITIALIZING is only added to
\* the storage cache (not saved, not passed to the sync manager, not sent
\* to a peer); a vertex accepted in a later state is saved to storage and
\* passed to the sync manager, and as it was not in storage before and
\* storage only grows, that happens once
C36_InitializingCachesOnly ==
    /\ [][\A h \in Hashes :
             ((InitializeReplay \/ PropagateTx(Vertex(h)))
                  /\ last'.tx = h /\ last'.result = "accepted") =>
                 C36_AcceptedGoesTo(h)
         ]_vars
    /\ [][storage \subseteq storage']_vars

\* a vertex pushed during INITIALIZING sits in the cache only, and a
\* vertex pushed to the synced node was saved, passed on and sent
C36_Witness ==
    /\ state = "SYNCED"
    /\ cache \ storage # {}
    /\ last.op = "propagate_tx"
    /\ last.result = "accepted"
    /\ last.tx \in storage
    /\ "node_sync_manager.on_new_tx" \in last.calls
    /\ sent_data # {}

\* C37: once the wallet is initialised, after any sequence of
\* get_unused_address and tokens_received calls last_shared_index is at
\* most last_generated_index, every index from 0 to last_generated_index
\* has its key, and the address get_unused_address returned is the address
\* of a generated key
C37_SharedWithinGenerated ==
    wallet.chain_key =>
        /\ wallet.last_shared_index <= wallet.last_generated_index
        /\ \A i \in 0..wallet.last_generated_index :
              get_address(i) \in wallet.keys
        /\ wallet_call.op = "get_unused_address" =>
              wallet_call.result \in wallet.keys

\* tokens were received, keys were generated beyond the first gap_limit
\* ones, and get_unused_address has reached the last generated key
C37_Witness ==
    /\ wallet.chain_key
    /\ wallet_call.op = "get_unused_address"
    /\ wallet.last_generated_index > gap_limit - 1
    /\ wallet.last_shared_index = wallet.last_generated_index
    /\ wallet_call.result = get_address(wallet.last_generated_index)

----------------------------------------------------------------------------
(* The retarget as a function of the span of the window and of the        *)
(* weight in force.                                                        *)

\* the longest span looked at, in seconds, and the number of half units of
\* weight above min_block_weight
MaxSpan == 1300
MaxHalfUnits == 6

\* spans below, at and above zero up to MaxSpan
Spans == -2..MaxSpan
\* weights from min_block_weight up, by half a unit
RetargetWeights ==
    {min_block_weight + k * (WeightUnit \div 2) : k \in 0..MaxHalfUnits}

\* the retarget of on_new_tx for the span and the weight drawn
Retarget ==
    /\ retarget.result = None
    /\ retarget' = [retarget EXCEPT
                       !.result = block_difficulty(retarget.span,
                                                   retarget.weight)]
    /\ UNCHANGED <<dagvars, p2pvars, metavars, walletvars, webvars, engvars,
                   syncvars, linkvars>>

InitRetarget ==
    /\ InitManager
    /\ storage = genesis_transactions
    /\ node = [n \in Nodes |-> [network |-> "testnet", my_peer |-> PeerOf(n)]]
    /\ InitP2P
    /\ meta = NoMetadata
    /\ cloned = NotCloned
    /\ wallet = NoWallet
    /\ wallet_call = NoWalletCall
    /\ response = NoResponse
    /\ dag = NoDag
    /\ sync = NoSync
    /\ links = NoLinks
    /\ retarget \in [span : Spans, weight : RetargetWeights, result : {None}]

NextRetarget == Retarget

SpecRetarget == InitRetarget /\ [][NextRetarget]_vars

\* C38: with the default parameters a window span of at most 80 s, the
\* zero and negative spans that count as dt = 1 included, raises the
\* weight by exactly 2, and a span of at least 1280 s lowers it by exactly
\* 2, or to min_block_weight where the floor applies
C38_ClampedRetarget ==
    retarget.result # None =>
        /\ retarget.span <= 0 => retarget.result.dt = 1
        /\ retarget.span <= 80 =>
              retarget.result.new_weight = retarget.weight + 2 * WeightUnit
        /\ retarget.span >= 1280 =>
              retarget.result.new_weight =
                  IF retarget.weight - 2 * WeightUnit < min_block_weight
                  THEN min_block_weight
                  ELSE retarget.weight - 2 * WeightUnit

\* the retarget at the span of exactly 80 s
C38_Witness ==
    /\ retarget.result # None
    /\ retarget.span = 80
    /\ retarget.result.dt = 80
    /\ retarget.result.new_weight = retarget.weight + 2 * WeightUnit

============================================================================
